---------------------------- MODULE Spec2Model ----------------------------
(***************************************************************************)
(* Verification model of the sidebyside regulation-diff tool.              *)
(*                                                                         *)
(*   SpecStore    the in-memory comparison store and the routes reading it *)
(*                (lib/store/comparisonStore.ts, api/compare/[id]/...)     *)
(*   SpecCompare  buildSectionComparisons (lib/compare/buildComparison.ts) *)
(*   SpecDiff     collapseWhitespaceNoiseTokens on lists of raw changes    *)
(*   SpecParse    parseSectionClauses, one step per section line           *)
(*                (lib/pdf/extractParagraphs.ts)                           *)
(*   SpecExtract  extractSections: boundaries, appendix cutoff, parsing    *)
(*                (lib/pdf/extractParagraphs.ts)                           *)
(*   SpecLayout   parseSectionClauses on lines laid out over pages         *)
(*   SpecSeparator  appendLineWithStructure on one continuation line       *)
(*   SpecJoin     joinLineFragments on the fragments of one line           *)
(*   SpecFooter   filterFooterLines                                        *)
(*   SpecSuperscripts  attachSuperscripts                                  *)
(*   SpecExtraction    extractLines of both uploads, await by await        *)
(***************************************************************************)
EXTENDS Integers, Sequences, FiniteSets, TLC

VARIABLES
  \* ---- comparison store ----
  store,          \* Map<string, StoredComparison>: id -> record or NoRecord
  clock,          \* Date.now(), in ms
  files,          \* temp files and directories that exist on disk
  lastSave,       \* history: id -> the most recent saveComparison call for it
  evicted,        \* history: ids whose record was removed because it expired
  response,       \* the last route response
  \* ---- buildSectionComparisons ----
  baseDocument,
  comparedDocument,
  comparison,     \* results of the calls made by Compare, or NoResult
  \* ---- parseSectionClauses ----
  sectionLines,
  ps,             \* the parser's local state (one record, fields as in the code)
  parsed,         \* ParsedSectionResult, or NoResult while the loop runs
  \* ---- extractSections ----
  lines,
  extracted,      \* { sections, issues }, or NoResult
  \* ---- filterFooterLines, attachSuperscripts, extractLines ----
  pageLines,      \* the lines a pass is given
  footerFiltered, \* what filterFooterLines returned, or NoResult
  superscripted,  \* what attachSuperscripts returned, or NoResult
  extraction      \* the extractions in progress, or NoResult

storeVars   == <<store, clock, files, lastSave, evicted, response>>
compareVars == <<baseDocument, comparedDocument, comparison>>
parseVars   == <<sectionLines, ps, parsed>>
extractVars == <<lines, extracted>>
lineVars    == <<pageLines, footerFiltered, superscripted, extraction>>
vars        == <<storeVars, compareVars, parseVars, extractVars, lineVars>>

NoRecord == [none |-> "record"]
NoResult == [none |-> "result"]
NoSave   == [none |-> "save"]
Null     == "null"

(***************************************************************************)
(* Generic helpers                                                         *)
(***************************************************************************)
Range(s) == { s[i] : i \in DOMAIN s }

RECURSIVE SeqsUpTo(_, _)
SeqsUpTo(S, n) ==
  IF n = 0 THEN { <<>> }
  ELSE LET shorter == SeqsUpTo(S, n - 1)
       IN  shorter \cup { Append(s, e) : s \in { t \in shorter : Len(t) = n - 1 }, e \in S }

RECURSIVE FlatMap(_, _)
FlatMap(F(_), s) ==
  IF s = <<>> THEN <<>> ELSE F(Head(s)) \o FlatMap(F, Tail(s))

\* " ".repeat(n)
RECURSIVE Spaces(_)
Spaces(n) == IF n <= 0 THEN "" ELSE " " \o Spaces(n - 1)

(***************************************************************************)
(* Strings.  Texts are TLA+ strings; the conversions the code applies to   *)
(* them are given by their values on the texts the model draws from.       *)
(***************************************************************************)
\* String.prototype.trim
Trim(text) ==
  CASE text = "five years "  -> "five years"
    [] text = " seven years" -> "seven years"
    [] OTHER                 -> text

\* value.replace(/[ \t]+/g, " ")
normalizeHorizontalWhitespace(text) ==
  CASE text = "five  years" -> "five years"
    [] text = "  "          -> " "
    [] OTHER                -> text

(***************************************************************************)
(* Clause alignment  (src/src/lib/compare/buildComparison.ts)              *)
(***************************************************************************)
NoClause  == [none |-> "clause"]
Undefined == "undefined"

AMBIGUOUS_TEXT ==
  "Unable to compare automatically due to duplicate clause identifiers in one or both sections."

Token(value, kind) == [ value |-> value, kind |-> kind ]

\* ---- lib/diff/tokenizeDiff: the diffs of a row with both clauses ----
isWhitespaceNoiseOnly(a, b) ==
  a # b /\ normalizeHorizontalWhitespace(a) = normalizeHorizontalWhitespace(b)

\* diffSentences / diffTrimmedLines / diffWordsWithSpace of the diff package,
\* for texts of one sentence on one line: equal texts give one unflagged
\* change, different texts a removed change followed by an added one.
diffWhole(base, compared) ==
  IF base = compared
  THEN << Token(base, "equal") >>
  ELSE << Token(base, "removed"), Token(compared, "added") >>

\* as buildSentenceDiff, without the test for whitespace noise
buildSentenceDiffNoNoiseTest(base, compared) == diffWhole(base, compared)

buildSentenceDiff(base, compared) ==
  IF isWhitespaceNoiseOnly(base, compared)
  THEN << Token(compared, "equal") >>
  ELSE diffWhole(base, compared)

buildParagraphDiff(base, compared) ==
  IF isWhitespaceNoiseOnly(base, compared)
  THEN << Token(compared, "equal") >>
  ELSE IF Trim(base) = Trim(compared)
  THEN << Token(base, "equal") >>
  ELSE diffWhole(base, compared)

\* /^[ \t]+$/.test(value)
IsHorizontalWhitespace(value) == value \in { " ", "  " }

RelabelWhitespace(tokens) ==
  [ i \in DOMAIN tokens |->
      IF tokens[i].kind # "equal" /\ IsHorizontalWhitespace(tokens[i].value)
      THEN Token(tokens[i].value, "equal") ELSE tokens[i] ]

RECURSIVE MergeNoisePairs(_, _)
\* the first loop of collapseWhitespaceNoiseTokens, from position index on
MergeNoisePairs(tokens, index) ==
  IF index > Len(tokens) THEN <<>>
  ELSE LET current == tokens[index]
           hasNext == index + 1 <= Len(tokens)
       IN  IF /\ hasNext
              /\ current.kind = "removed" /\ tokens[index + 1].kind = "added"
              /\ isWhitespaceNoiseOnly(current.value, tokens[index + 1].value)
           THEN << Token(tokens[index + 1].value, "equal") >> \o MergeNoisePairs(tokens, index + 2)
           ELSE IF /\ hasNext
                   /\ current.kind = "added" /\ tokens[index + 1].kind = "removed"
                   /\ isWhitespaceNoiseOnly(tokens[index + 1].value, current.value)
           THEN << Token(current.value, "equal") >> \o MergeNoisePairs(tokens, index + 2)
           ELSE << current >> \o MergeNoisePairs(tokens, index + 1)

RECURSIVE CollapseSameKind(_, _)
\* the second loop: adjacent tokens of one kind are concatenated
CollapseSameKind(collapsed, tokens) ==
  IF tokens = <<>> THEN collapsed
  ELSE LET token == Head(tokens)
           n     == Len(collapsed)
       IN  IF n > 0 /\ collapsed[n].kind = token.kind
           THEN CollapseSameKind(
                  [ collapsed EXCEPT ![n].value = collapsed[n].value \o token.value ],
                  Tail(tokens))
           ELSE CollapseSameKind(Append(collapsed, token), Tail(tokens))

collapseWhitespaceNoiseTokens(tokens) ==
  CollapseSameKind(<<>>, MergeNoisePairs(RelabelWhitespace(tokens), 1))

buildWordDiff(base, compared) ==
  collapseWhitespaceNoiseTokens(diffWhole(base, compared))

\* ---- groupClausesById: the clauses with a given id, in order ----
groupClausesById(clauses, id) == SelectSeq(clauses, LAMBDA c : c.id = id)

RECURSIVE AppendUnseen(_, _)
\* ids of clauses not yet in sequence, appended in order of first occurrence
AppendUnseen(sequence, clauses) ==
  IF clauses = <<>> THEN sequence
  ELSE AppendUnseen(
         IF Head(clauses).id \in Range(sequence) THEN sequence
         ELSE Append(sequence, Head(clauses).id),
         Tail(clauses))

buildClauseSequence(baseClauses, comparedClauses) ==
  AppendUnseen(AppendUnseen(<<>>, baseClauses), comparedClauses)

isDuplicateGroupOff(group) == FALSE

isDuplicateGroupLoose(group) == Len(group) >= 1

isDuplicateGroup(group) == Len(group) > 1

buildDisplayLabel(labelBase, labelCompared) ==
  IF labelBase # Undefined /\ labelCompared # Undefined
  THEN IF labelBase = labelCompared THEN labelBase
       ELSE labelBase \o " | " \o labelCompared
  ELSE IF labelBase # Undefined THEN labelBase
  ELSE IF labelCompared # Undefined THEN labelCompared
  ELSE "Unknown"

\* group?.[0]
FirstOf(group) == IF group = <<>> THEN NoClause ELSE group[1]

LabelOf(clause) == IF clause = NoClause THEN Undefined ELSE clause.rawLabel

buildAmbiguousRow(key, baseGroup, comparedGroup) ==
  LET base     == FirstOf(baseGroup)
      compared == FirstOf(comparedGroup)
  IN  [ key |-> key,
        labelBase |-> LabelOf(base), labelCompared |-> LabelOf(compared),
        displayLabel |-> buildDisplayLabel(LabelOf(base), LabelOf(compared)),
        inBase |-> base # NoClause, inCompared |-> compared # NoClause,
        base |-> base, compared |-> compared,
        status |-> "ambiguous",
        diffWord      |-> << Token(AMBIGUOUS_TEXT, "equal") >>,
        diffSentence  |-> << Token(AMBIGUOUS_TEXT, "equal") >>,
        diffParagraph |-> << Token(AMBIGUOUS_TEXT, "equal") >> ]

RowStatusRaw(base, compared) ==
  IF base.textPreserved = compared.textPreserved THEN "unchanged" ELSE "changed"

\* status of a row with a clause on both sides
RowStatus(base, compared) ==
  IF Trim(base.textPreserved) = Trim(compared.textPreserved)
  THEN "unchanged" ELSE "changed"

OneSidedKindCopied(side) == "removed"

\* status and token kind of a row with a clause on one side only
OneSidedKind(side) == IF side = "base" THEN "removed" ELSE "added"

\* the body of sequence.map in buildRowsForSection
buildRow(key, baseClauses, comparedClauses) ==
  LET baseGroup     == groupClausesById(baseClauses, key)
      comparedGroup == groupClausesById(comparedClauses, key)
      base          == FirstOf(baseGroup)
      compared      == FirstOf(comparedGroup)
      common == [ key |-> key,
                  labelBase |-> LabelOf(base), labelCompared |-> LabelOf(compared),
                  displayLabel |-> buildDisplayLabel(LabelOf(base), LabelOf(compared)) ]
  IN  IF isDuplicateGroup(baseGroup) \/ isDuplicateGroup(comparedGroup)
      THEN buildAmbiguousRow(key, baseGroup, comparedGroup)
      ELSE IF base # NoClause /\ compared # NoClause
      THEN common @@
           [ inBase |-> TRUE, inCompared |-> TRUE, base |-> base, compared |-> compared,
             status |-> RowStatus(base, compared),
             diffWord      |-> buildWordDiff(base.textPreserved, compared.textPreserved),
             diffSentence  |-> buildSentenceDiff(base.textPreserved, compared.textPreserved),
             diffParagraph |-> buildParagraphDiff(base.textPreserved, compared.textPreserved) ]
      ELSE IF base # NoClause
      THEN common @@
           [ inBase |-> TRUE, inCompared |-> FALSE, base |-> base, compared |-> NoClause,
             status |-> OneSidedKind("base"),
             diffWord      |-> << Token(base.textPreserved, OneSidedKind("base")) >>,
             diffSentence  |-> << Token(base.textPreserved, OneSidedKind("base")) >>,
             diffParagraph |-> << Token(base.textPreserved, OneSidedKind("base")) >> ]
      ELSE common @@
           [ inBase |-> FALSE, inCompared |-> TRUE, base |-> NoClause, compared |-> compared,
             status |-> OneSidedKind("compared"),
             diffWord      |-> << Token(compared.textPreserved, OneSidedKind("compared")) >>,
             diffSentence  |-> << Token(compared.textPreserved, OneSidedKind("compared")) >>,
             diffParagraph |-> << Token(compared.textPreserved, OneSidedKind("compared")) >> ]

buildRowsForSection(baseClauses, comparedClauses) ==
  LET sequence == buildClauseSequence(baseClauses, comparedClauses)
  IN  [ i \in DOMAIN sequence |-> buildRow(sequence[i], baseClauses, comparedClauses) ]

\* normalizeHeader(header).startsWith("appendix"); the headers of an extracted
\* document are canonical section headers or "Unsectioned"
isAppendixSection(header) == header \in { "Appendix", "Appendix A" }

RECURSIVE AppendUnseenHeaders(_, _)
AppendUnseenHeaders(sequence, headers) ==
  IF headers = <<>> THEN sequence
  ELSE AppendUnseenHeaders(
         IF Head(headers) \in Range(sequence) THEN sequence
         ELSE Append(sequence, Head(headers)),
         Tail(headers))

buildHeaderSequence(baseHeaders, comparedHeaders) ==
  AppendUnseenHeaders(AppendUnseenHeaders(<<>>, baseHeaders), comparedHeaders)

HeadersOf(sections) == [ i \in DOMAIN sections |-> sections[i].header ]

\* new Map(sections.map(s => [s.header, s])).get(header): the last entry wins
ByHeader(sections, header) ==
  LET hits == SelectSeq(sections, LAMBDA sec : sec.header = header)
  IN  IF hits = <<>> THEN NoResult ELSE hits[Len(hits)]

buildSection(header, baseSections, comparedSections) ==
  LET base     == ByHeader(baseSections, header)
      compared == ByHeader(comparedSections, header)
      baseClauses     == IF base = NoResult THEN <<>> ELSE base.clauses
      comparedClauses == IF compared = NoResult THEN <<>> ELSE compared.clauses
  IN  [ header |-> header,
        status |-> IF base # NoResult /\ compared # NoResult THEN "matched"
                   ELSE IF base # NoResult THEN "missing_in_compared"
                   ELSE "missing_in_base",
        baseClauses |-> baseClauses,
        comparedClauses |-> comparedClauses,
        rows |-> buildRowsForSection(baseClauses, comparedClauses) ]

\* hasAnyClause || hasAnyText
SectionSurvives(section) ==
  \/ Len(section.baseClauses) > 0 \/ Len(section.comparedClauses) > 0
  \/ \E c \in Range(section.baseClauses) \cup Range(section.comparedClauses) :
       Trim(c.textPreserved) # ""

FlatKey(header, key) == header \o "::" \o key

FlattenRows(section) ==
  [ i \in DOMAIN section.rows |->
      [ section.rows[i] EXCEPT !.key = FlatKey(section.header, section.rows[i].key) ] ]

\* min of pageStart and max of pageEnd over the clauses
buildPageRange(clauses) ==
  IF clauses = <<>> THEN Undefined
  ELSE [ pageStart |-> CHOOSE p \in { c.pageStart : c \in Range(clauses) } :
                         \A c \in Range(clauses) : p <= c.pageStart,
         pageEnd   |-> CHOOSE p \in { c.pageEnd : c \in Range(clauses) } :
                         \A c \in Range(clauses) : p >= c.pageEnd ]

AnchorOf(clause) == [ page |-> clause.anchorPage, y |-> clause.anchorY ]

FALLBACK_ANCHOR_Y == 780

RECURSIVE NearestComparedAnchor(_, _, _, _)
\* the loop of resolveComparedAnchor: the row before, then the row after, at
\* growing distance
NearestComparedAnchor(rows, index, distance, fallbackPageRange) ==
  IF distance >= Len(rows)
  THEN IF fallbackPageRange # Undefined
       THEN [ page |-> fallbackPageRange.pageStart, y |-> FALLBACK_ANCHOR_Y ]
       ELSE Undefined
  ELSE IF index - distance \in DOMAIN rows /\ rows[index - distance].compared # NoClause
  THEN AnchorOf(rows[index - distance].compared)
  ELSE IF index + distance \in DOMAIN rows /\ rows[index + distance].compared # NoClause
  THEN AnchorOf(rows[index + distance].compared)
  ELSE NearestComparedAnchor(rows, index, distance + 1, fallbackPageRange)

resolveComparedAnchor(rows, index, fallbackPageRange) ==
  IF rows[index].compared # NoClause THEN AnchorOf(rows[index].compared)
  ELSE NearestComparedAnchor(rows, index, 1, fallbackPageRange)

\* as buildSectionAnchors, the anchorId being the key of the row alone
buildSectionAnchorsRowKey(sectionHeader, rows, comparedRange) ==
  [ index \in DOMAIN rows |->
      LET row == rows[index]
      IN  [ sectionHeader |-> sectionHeader,
            anchorId |-> row.key,
            label    |-> row.displayLabel,
            base     |-> IF row.base # NoClause THEN AnchorOf(row.base) ELSE Undefined,
            compared |-> IF row.inCompared
                         THEN IF row.compared # NoClause THEN AnchorOf(row.compared)
                              ELSE Undefined
                         ELSE resolveComparedAnchor(rows, index, comparedRange),
            status   |-> row.status ] ]

\* the anchors of the rows of one section; the snippets of an anchor are left out
buildSectionAnchors(sectionHeader, rows, comparedRange) ==
  [ index \in DOMAIN rows |->
      LET row == rows[index]
      IN  [ sectionHeader |-> sectionHeader,
            anchorId |-> sectionHeader \o "::" \o row.key,
            label    |-> row.displayLabel,
            base     |-> IF row.base # NoClause THEN AnchorOf(row.base) ELSE Undefined,
            compared |-> IF row.inCompared
                         THEN IF row.compared # NoClause THEN AnchorOf(row.compared)
                              ELSE Undefined
                         ELSE resolveComparedAnchor(rows, index, comparedRange),
            status   |-> row.status ] ]

SectionPageMapOf(section) ==
  [ header |-> section.header,
    base |-> buildPageRange(section.baseClauses),
    compared |-> buildPageRange(section.comparedClauses) ]

\* sectionPageMap.find((entry) => entry.header === section.header)?.compared
AnchorsOf(section) ==
  buildSectionAnchors(section.header, section.rows, SectionPageMapOf(section).compared)

buildSectionComparisons(baseDoc, comparedDoc) ==
  LET baseSections     == SelectSeq(baseDoc, LAMBDA sec : ~isAppendixSection(sec.header))
      comparedSections == SelectSeq(comparedDoc, LAMBDA sec : ~isAppendixSection(sec.header))
      headers  == buildHeaderSequence(HeadersOf(baseSections), HeadersOf(comparedSections))
      built    == [ i \in DOMAIN headers |->
                      buildSection(headers[i], baseSections, comparedSections) ]
      sections == SelectSeq(built, SectionSurvives)
      matched  == SelectSeq(sections, LAMBDA sec : sec.status = "matched")
  IN  [ sections |-> sections,
        sectionPageMap |-> [ i \in DOMAIN sections |-> SectionPageMapOf(sections[i]) ],
        sectionAnchors |-> FlatMap(AnchorsOf, sections),
        rows |-> FlatMap(FlattenRows, sections),
        selectedSectionDefault |->
          IF matched # <<>> THEN matched[1].header
          ELSE IF sections # <<>> THEN sections[1].header
          ELSE Undefined ]

\* ---- the documents compared ----
Headers   == { "Objective", "Scope" }
ClauseIds == { "1", "2(a)" }
Texts     == { "five years", "five years ", "five  years", "seven years" }

\* the clauses of both documents together
MaxClauses == 2

Clause(id, text) ==
  [ id |-> id, rawLabel |-> id, textPreserved |-> text,
    pageStart |-> 1, pageEnd |-> 1, anchorPage |-> 1, anchorY |-> 700 ]

Section(header, clauses) == [ header |-> header, clauses |-> clauses ]

ClauseValues == { Clause(id, text) : id \in ClauseIds, text \in Texts }

RECURSIVE DocSize(_)
DocSize(doc) == IF doc = <<>> THEN 0 ELSE Len(Head(doc).clauses) + DocSize(Tail(doc))

\* extracted documents of at most n clauses: the headers of a document are distinct
DocsWithin(n) ==
  LET secs == { Section(h, cs) : h \in Headers, cs \in SeqsUpTo(ClauseValues, n) }
  IN  { <<>> } \cup { << sec >> : sec \in secs }
      \cup { pair \in secs \X secs : /\ pair[1].header # pair[2].header
                                      /\ Len(pair[1].clauses) + Len(pair[2].clauses) <= n }

\* the documents of the smoke test's standard and duplicate scenarios
S1Base ==
  << Section("Unsectioned",
       << Clause("1", "1. Base framework applies to consumer credit products."),
          Clause("2(a)", "2(a) Institutions must retain records for five years."),
          Clause("3", "3. Notices must be delivered in writing.") >>) >>

S1Compared ==
  << Section("Unsectioned",
       << Clause("1", "1. Base framework applies to consumer lending products."),
          Clause("2(a)", "2(a) Institutions must retain records for seven years."),
          Clause("4", "4. Digital notices are permitted with consent.") >>) >>

S2Base ==
  << Section("Unsectioned",
       << [ Clause("__unmatched_1", "Preface line without paragraph key.")
              EXCEPT !.rawLabel = "Unmatched 1" ],
          Clause("1", "1. First version text."),
          Clause("1", "1. Duplicate first paragraph in base."),
          Clause("2", "2) Shared section text.") >>) >>

S2Compared ==
  << Section("Unsectioned",
       << Clause("1", "1. Updated first section text."),
          Clause("2", "2) Shared section text.") >>) >>

\* the clauses of a document laid out from the top of page 1, two to a page
Placed(doc, top) ==
  [ k \in DOMAIN doc |->
      [ doc[k] EXCEPT !.clauses =
          [ i \in DOMAIN doc[k].clauses |->
              [ doc[k].clauses[i] EXCEPT
                  !.pageStart = k + (i - 1) \div 2, !.pageEnd = k + (i - 1) \div 2,
                  !.anchorPage = k + (i - 1) \div 2,
                  !.anchorY = top - 40 * ((i - 1) % 2) ] ] ] ]

\* a section whose compared side lacks clauses between, before and after
\* the clauses it has
S3Base ==
  << Section("Scope",
       << Clause("1", "five years"), Clause("2(a)", "five years"),
          Clause("3", "five years"), Clause("4", "five years") >>) >>

S3Compared ==
  << Section("Scope", << Clause("1", "five years"), Clause("3", "seven years") >>) >>

S4Compared ==
  << Section("Scope", << Clause("5", "seven years"), Clause("4", "five years") >>) >>

\* the documents of at most MaxClauses clauses
BoundedDocs == DocsWithin(MaxClauses)

InitCompare ==
  /\ \E base, compared \in BoundedDocs
                            \cup { S1Base, S1Compared, S2Base, S2Compared,
                                   S3Base, S3Compared, S4Compared } :
       /\ \/ /\ base \in BoundedDocs
             /\ compared \in BoundedDocs
             /\ DocSize(base) + DocSize(compared) <= MaxClauses
          \/ base = S1Base /\ compared = S1Compared
          \/ base = S2Base /\ compared = S2Compared
          \/ base = S3Base /\ compared \in { S3Compared, S4Compared }
       /\ baseDocument = Placed(base, 700)
       /\ comparedDocument = Placed(compared, 690)
  /\ comparison = NoResult
  /\ store = [ id \in {} |-> NoRecord ] /\ clock = 0 /\ files = {}
  /\ lastSave = <<>> /\ evicted = {} /\ response = NoResult
  /\ sectionLines = <<>> /\ ps = NoResult /\ parsed = NoResult
  /\ lines = <<>> /\ extracted = NoResult
  /\ pageLines = <<>> /\ footerFiltered = NoResult /\ superscripted = NoResult
  /\ extraction = NoResult

\* the three calls the relational claims speak of: compare(a, b), compare(b, a)
\* and compare(a, a)
Compare ==
  /\ comparison = NoResult
  /\ comparison' = [ ab |-> buildSectionComparisons(baseDocument, comparedDocument),
                     ba |-> buildSectionComparisons(comparedDocument, baseDocument),
                     aa |-> buildSectionComparisons(baseDocument, baseDocument) ]
  /\ UNCHANGED <<baseDocument, comparedDocument>>
  /\ UNCHANGED <<storeVars, parseVars, extractVars, lineVars>>

NextCompare == Compare

SpecCompare == InitCompare /\ [][NextCompare]_vars

Compared == comparison # NoResult

SectionRows(result) ==
  UNION { { <<sec.header, sec.rows[i]>> : i \in DOMAIN sec.rows } :
          sec \in Range(result.sections) }

\* the clauses of the section of doc under header (none when it has no such section)
ClausesOf(doc, header) ==
  LET sec == ByHeader(doc, header) IN IF sec = NoResult THEN <<>> ELSE sec.clauses

Occurrences(doc, header, id) == Len(groupClausesById(ClausesOf(doc, header), id))

\* C1: compare(a, a) yields no added, removed or changed row; every row is
\* unchanged or ambiguous, and ambiguous only when its id occurs more than once
\* within that section of a.
C1_SelfCompareUnchanged ==
  Compared =>
    /\ \A i \in DOMAIN comparison.aa.rows :
         comparison.aa.rows[i].status \in { "unchanged", "ambiguous" }
    /\ \A hr \in SectionRows(comparison.aa) :
         /\ hr[2].status \in { "unchanged", "ambiguous" }
         /\ hr[2].status = "ambiguous" => Occurrences(baseDocument, hr[1], hr[2].key) > 1
         /\ hr[2].status = "unchanged" => Occurrences(baseDocument, hr[1], hr[2].key) = 1

\* a document with a duplicated id and a unique id in one section, compared with itself
C1_Witness ==
  /\ Compared
  /\ \E hr \in SectionRows(comparison.aa) : hr[2].status = "ambiguous"
  /\ \E hr \in SectionRows(comparison.aa) : hr[2].status = "unchanged"

SingleToken(diff, value, kind) == diff = << Token(value, kind) >>

\* C2: for an id occurring at most once on each side the row is unchanged when
\* on both sides with equal trimmed texts, changed when on both sides with
\* different trimmed texts, removed when only in base (three diffs of a single
\* removed token with the base text), added when only in compared (a single
\* added token with the compared text); the standard scenario gives 4 rows:
\* 1 changed, 2(a) changed, 3 removed, 4 added.
C2_RowStatusByPresence ==
  Compared =>
    /\ \A hr \in SectionRows(comparison.ab) :
         LET row == hr[2]
             nb  == Occurrences(baseDocument, hr[1], row.key)
             nc  == Occurrences(comparedDocument, hr[1], row.key)
             b   == FirstOf(groupClausesById(ClausesOf(baseDocument, hr[1]), row.key))
             c   == FirstOf(groupClausesById(ClausesOf(comparedDocument, hr[1]), row.key))
         IN  (nb <= 1 /\ nc <= 1) =>
               /\ (nb = 1 /\ nc = 1 /\ Trim(b.textPreserved) = Trim(c.textPreserved))
                    => row.status = "unchanged"
               /\ (nb = 1 /\ nc = 1 /\ Trim(b.textPreserved) # Trim(c.textPreserved))
                    => row.status = "changed"
               /\ (nb = 1 /\ nc = 0) =>
                    /\ row.status = "removed"
                    /\ SingleToken(row.diffWord, b.textPreserved, "removed")
                    /\ SingleToken(row.diffSentence, b.textPreserved, "removed")
                    /\ SingleToken(row.diffParagraph, b.textPreserved, "removed")
               /\ (nb = 0 /\ nc = 1) =>
                    /\ row.status = "added"
                    /\ SingleToken(row.diffWord, c.textPreserved, "added")
                    /\ SingleToken(row.diffSentence, c.textPreserved, "added")
                    /\ SingleToken(row.diffParagraph, c.textPreserved, "added")
    /\ (baseDocument = Placed(S1Base, 700) /\ comparedDocument = Placed(S1Compared, 690)) =>
         /\ Len(comparison.ab.rows) = 4
         /\ { <<r.key, r.status>> : r \in Range(comparison.ab.rows) } =
              { << FlatKey("Unsectioned", "1"), "changed" >>,
                << FlatKey("Unsectioned", "2(a)"), "changed" >>,
                << FlatKey("Unsectioned", "3"), "removed" >>,
                << FlatKey("Unsectioned", "4"), "added" >> }

\* the standard scenario compared, and a pair of texts that differ only by trimming
C2_Witness ==
  /\ Compared
  /\ baseDocument = Placed(S1Base, 700) /\ comparedDocument = Placed(S1Compared, 690)
  /\ Len(comparison.ab.rows) = 4
  /\ { row.status : row \in Range(comparison.ab.rows) } = { "changed", "removed", "added" }

\* C3: an id occurring more than once among the base or the compared clauses of
\* a section yields exactly one row, ambiguous, whose three diffs are a single
\* equal token with the fixed sentence and whose base/compared are the first
\* occurrence on each side; every row whose id is duplicated on a side is
\* ambiguous, so ids of non-ambiguous rows are unique on both sides.
C3_DuplicateIdsAmbiguous ==
  Compared =>
    \A sec \in Range(comparison.ab.sections) :
      /\ \A id \in { c.id : c \in Range(sec.baseClauses) \cup Range(sec.comparedClauses) } :
           LET bg == groupClausesById(ClausesOf(baseDocument, sec.header), id)
               cg == groupClausesById(ClausesOf(comparedDocument, sec.header), id)
               at == { i \in DOMAIN sec.rows : sec.rows[i].key = id }
           IN  (Len(bg) > 1 \/ Len(cg) > 1) =>
                 /\ Cardinality(at) = 1
                 /\ \A i \in at :
                      /\ sec.rows[i].status = "ambiguous"
                      /\ SingleToken(sec.rows[i].diffWord, AMBIGUOUS_TEXT, "equal")
                      /\ SingleToken(sec.rows[i].diffSentence, AMBIGUOUS_TEXT, "equal")
                      /\ SingleToken(sec.rows[i].diffParagraph, AMBIGUOUS_TEXT, "equal")
                      /\ sec.rows[i].base = IF bg = <<>> THEN NoClause ELSE bg[1]
                      /\ sec.rows[i].compared = IF cg = <<>> THEN NoClause ELSE cg[1]
      /\ \A i \in DOMAIN sec.rows :
           sec.rows[i].status # "ambiguous" =>
             /\ Occurrences(baseDocument, sec.header, sec.rows[i].key) <= 1
             /\ Occurrences(comparedDocument, sec.header, sec.rows[i].key) <= 1

\* an id twice in base with different texts, once in compared
C3_Witness ==
  /\ Compared
  /\ \E sec \in Range(comparison.ab.sections) : \E i \in DOMAIN sec.rows :
       LET bg == groupClausesById(sec.baseClauses, sec.rows[i].key)
       IN  /\ sec.rows[i].status = "ambiguous"
           /\ Len(bg) = 2 /\ bg[1] # bg[2]
           /\ sec.rows[i].compared # NoClause

SwapStatus(status) ==
  CASE status = "added"   -> "removed"
    [] status = "removed" -> "added"
    [] OTHER              -> status

RowFacts(result) ==
  { [ header |-> hr[1], key |-> hr[2].key, status |-> hr[2].status,
      base |-> hr[2].base, compared |-> hr[2].compared ] : hr \in SectionRows(result) }

SwapFacts(facts) ==
  { [ header |-> f.header, key |-> f.key, status |-> SwapStatus(f.status),
      base |-> f.compared, compared |-> f.base ] : f \in facts }

\* C4: the (header, id, status) triples of compare(b, a) are those of
\* compare(a, b) with added and removed exchanged, and each row's base clause in
\* one is the compared clause of the corresponding row in the other.
C4_RoleSwapConsistent ==
  Compared =>
    /\ RowFacts(comparison.ba) = SwapFacts(RowFacts(comparison.ab))
    /\ Len(comparison.ba.rows) = Len(comparison.ab.rows)
    /\ Cardinality(RowFacts(comparison.ab)) = Len(comparison.ab.rows)

\* an added and a removed row, with the sections in a different order after the swap
C4_Witness ==
  /\ Compared
  /\ \E f \in RowFacts(comparison.ab) : f.status = "added"
  /\ \E f \in RowFacts(comparison.ab) : f.status = "removed"
  /\ HeadersOf(comparison.ab.sections) # HeadersOf(comparison.ba.sections)

PairwiseDistinct(values) ==
  \A i, j \in DOMAIN values : i # j => values[i] # values[j]

AnchorsMatchRows(result) ==
  LET anchorIds == [ i \in DOMAIN result.sectionAnchors |-> result.sectionAnchors[i].anchorId ]
      keys      == [ i \in DOMAIN result.rows |-> result.rows[i].key ]
  IN  /\ PairwiseDistinct(anchorIds)
      /\ PairwiseDistinct(keys)
      /\ Len(result.sectionAnchors) = Len(result.rows)
      /\ anchorIds = keys

\* C18: in every result of buildSectionComparisons the anchorId values of
\* sectionAnchors are pairwise distinct, the keys of the flattened rows are
\* pairwise distinct, and sectionAnchors and rows have the same length, the
\* anchorId of the i-th anchor being the key of the i-th row.
C18_AnchorIdsAreRowKeys ==
  Compared =>
    /\ AnchorsMatchRows(comparison.ab)
    /\ AnchorsMatchRows(comparison.ba)
    /\ AnchorsMatchRows(comparison.aa)

\* the same clause id in two sections: two rows, two anchors
C18_Witness ==
  /\ Compared
  /\ Len(comparison.ab.sections) = 2
  /\ comparison.ab.sections[1].rows # <<>> /\ comparison.ab.sections[2].rows # <<>>
  /\ comparison.ab.sections[1].rows[1].key = comparison.ab.sections[2].rows[1].key
  /\ Len(comparison.ab.sectionAnchors) = 2
  /\ comparison.ab.sectionAnchors[1].anchorId # comparison.ab.sectionAnchors[2].anchorId

\* the rows of section k of a result come after the rows of the sections before it
RECURSIVE RowsBefore(_, _)
RowsBefore(result, k) ==
  IF k <= 1 THEN 0 ELSE RowsBefore(result, k - 1) + Len(result.sections[k - 1].rows)

\* the anchor of row i of section k
AnchorAt(result, k, i) == result.sectionAnchors[RowsBefore(result, k) + i]

WithCompared(rows) == { j \in DOMAIN rows : rows[j].compared # NoClause }

Distance(i, j) == IF i >= j THEN i - j ELSE j - i

\* the row with a compared clause nearest to row i, the preceding one of two
\* equally near
NearestWithCompared(rows, i) ==
  CHOOSE j \in WithCompared(rows) :
    \A other \in WithCompared(rows) \ { j } :
      \/ Distance(i, j) < Distance(i, other)
      \/ Distance(i, j) = Distance(i, other) /\ j < other

NearestRule(result) ==
  \A k \in DOMAIN result.sections :
    LET rows == result.sections[k].rows IN
    \A i \in DOMAIN rows :
      (rows[i].compared = NoClause /\ WithCompared(rows) # {}) =>
        LET nearest == rows[NearestWithCompared(rows, i)].compared
        IN  AnchorAt(result, k, i).compared =
              [ page |-> nearest.anchorPage, y |-> nearest.anchorY ]

\* no row of the section has a compared clause: the start of the section's
\* compared page range, y = 780
FallbackRule(result) ==
  \A k \in DOMAIN result.sections :
    LET rows == result.sections[k].rows IN
    \A i \in DOMAIN rows :
      (rows[i].compared = NoClause /\ WithCompared(rows) = {}) =>
        /\ result.sectionPageMap[k].compared # Undefined
        /\ AnchorAt(result, k, i).compared # Undefined
        /\ AnchorAt(result, k, i).compared.page = result.sectionPageMap[k].compared.pageStart
        /\ AnchorAt(result, k, i).compared.y = 780

\* what the code leaves in that case: no compared point and no compared page range
NoFallback(result) ==
  \A k \in DOMAIN result.sections :
    LET rows == result.sections[k].rows IN
    \A i \in DOMAIN rows :
      (rows[i].compared = NoClause /\ WithCompared(rows) = {}) =>
        /\ result.sectionPageMap[k].compared = Undefined
        /\ AnchorAt(result, k, i).compared = Undefined

\* C24 (as claimed): for a row without compared clause the anchor's compared
\* point is the anchorPage/anchorY of the compared clause of the nearest row of
\* the section by index distance, the preceding row winning a tie; if no row of
\* the section has a compared clause it is the pageStart of the section's
\* compared page range with y = 780.
C24_NearestComparedElsePageStart ==
  Compared =>
    /\ NearestRule(comparison.ab) /\ FallbackRule(comparison.ab)
    /\ NearestRule(comparison.ba) /\ FallbackRule(comparison.ba)

\* what holds: the nearest rule, and no compared point at all when no row of
\* the section has a compared clause
C24_NearestComparedElseNone ==
  Compared =>
    /\ NearestRule(comparison.ab) /\ NoFallback(comparison.ab)
    /\ NearestRule(comparison.ba) /\ NoFallback(comparison.ba)

\* rows 1, 2(a), 3, 4 with compared clauses on rows 1 and 3: row 2(a), equally
\* near to both, takes the point of row 1 and row 4 that of row 3
C24_WitnessTie ==
  /\ Compared
  /\ Len(comparison.ab.sections) = 1
  /\ Len(comparison.ab.sections[1].rows) = 4
  /\ WithCompared(comparison.ab.sections[1].rows) = { 1, 3 }
  /\ comparison.ab.sectionAnchors[2].compared = [ page |-> 1, y |-> 690 ]
  /\ comparison.ab.sectionAnchors[4].compared = [ page |-> 1, y |-> 650 ]

\* a section missing in the compared document: its rows have no compared point
C24_WitnessNoComparedClause ==
  /\ Compared
  /\ \E k \in DOMAIN comparison.ab.sections :
       /\ comparison.ab.sections[k].rows # <<>>
       /\ WithCompared(comparison.ab.sections[k].rows) = {}
       /\ AnchorAt(comparison.ab, k, 1).compared = Undefined

\* text with every run of spaces and tabs replaced by one space
OneSpacePerRun(text) == IF text = "five  years" THEN "five years" ELSE text

\* different strings that are equal once their runs of spaces are single
\* spaces, and whose trimmed forms differ
SpacingOnlyPair(base, compared) ==
  /\ base # compared
  /\ OneSpacePerRun(base) = OneSpacePerRun(compared)
  /\ Trim(base) # Trim(compared)

\* the rows of compare(a, b) with one clause on each side whose texts are a
\* spacing-only pair
SpacingOnlyRows ==
  { hr \in SectionRows(comparison.ab) :
      /\ Occurrences(baseDocument, hr[1], hr[2].key) = 1
      /\ Occurrences(comparedDocument, hr[1], hr[2].key) = 1
      /\ SpacingOnlyPair(
           FirstOf(groupClausesById(ClausesOf(baseDocument, hr[1]), hr[2].key)).textPreserved,
           FirstOf(groupClausesById(ClausesOf(comparedDocument, hr[1]), hr[2].key)).textPreserved) }

\* C30: for clause texts present on both sides that are different strings,
\* equal once every run of spaces and tabs is one space, and different when
\* trimmed, the row has status changed while its diffSentence and its
\* diffParagraph are each exactly one equal token carrying the compared text:
\* a changed row need not contain any added or removed token.
C30_SpacingOnlyRowChangedWithEqualDiffs ==
  Compared =>
    \A hr \in SpacingOnlyRows :
      LET row == hr[2]
          c   == FirstOf(groupClausesById(ClausesOf(comparedDocument, hr[1]), row.key))
      IN  /\ row.status = "changed"
          /\ row.diffSentence = << Token(c.textPreserved, "equal") >>
          /\ row.diffParagraph = << Token(c.textPreserved, "equal") >>
          /\ row.compared.textPreserved = c.textPreserved

\* "five years" against "five  years" under one id: a changed row whose
\* sentence and paragraph diffs hold no added or removed token
C30_Witness ==
  /\ Compared
  /\ \E hr \in SpacingOnlyRows :
       /\ hr[2].base.textPreserved = "five years"
       /\ hr[2].compared.textPreserved = "five  years"
       /\ hr[2].status = "changed"
       /\ \A t \in Range(hr[2].diffSentence) \cup Range(hr[2].diffParagraph) :
            t.kind = "equal"

(***************************************************************************)
(* The word diff's post-processing on lists of raw changes                 *)
(***************************************************************************)
MaxChanges == 3

\* the values and kinds of the changes the diff package hands over
ChangeValues == { "five years", "five  years", " ", "  ", "seven" }
ChangeKinds  == { "equal", "added", "removed" }
RawChanges   == { Token(value, kind) : value \in ChangeValues, kind \in ChangeKinds }

InitDiff ==
  /\ \E changes \in SeqsUpTo(RawChanges, MaxChanges) :
       comparison = [ changes |-> changes, collapsed |-> FALSE, tokens |-> <<>> ]
  /\ baseDocument = <<>> /\ comparedDocument = <<>>
  /\ store = [ id \in {} |-> NoRecord ] /\ clock = 0 /\ files = {}
  /\ lastSave = <<>> /\ evicted = {} /\ response = NoResult
  /\ sectionLines = <<>> /\ ps = NoResult /\ parsed = NoResult
  /\ lines = <<>> /\ extracted = NoResult
  /\ pageLines = <<>> /\ footerFiltered = NoResult /\ superscripted = NoResult
  /\ extraction = NoResult

\* collapseWhitespaceNoiseTokens(mapChanges(changes))
CollapseTokens ==
  /\ ~comparison.collapsed
  /\ comparison' = [ comparison EXCEPT
                       !.collapsed = TRUE,
                       !.tokens = collapseWhitespaceNoiseTokens(comparison.changes) ]
  /\ UNCHANGED <<baseDocument, comparedDocument>>
  /\ UNCHANGED <<storeVars, parseVars, extractVars, lineVars>>

NextDiff == CollapseTokens

SpecDiff == InitDiff /\ [][NextDiff]_vars

Collapsed == comparison.collapsed

\* strings of spaces only, up to the longest a merged token can hold
RECURSIVE BlankStrings(_)
BlankStrings(n) == IF n = 0 THEN {} ELSE { Spaces(n) } \cup BlankStrings(n - 1)

OnlySpacesAndTabs(value) == value \in BlankStrings(2 * MaxChanges + 2)

\* X and Y differ and are equal once every run of spaces is one space
NoisePair(x, y) ==
  LET one(v) == IF v = "five  years" THEN "five years" ELSE IF v = "  " THEN " " ELSE v
  IN  x # y /\ one(x) = one(y)

\* changes i and i + 1 are (removed X, added Y) or (added Y, removed X), a noise pair
NoisePairAt(changes, i) ==
  /\ i + 1 <= Len(changes)
  /\ \/ changes[i].kind = "removed" /\ changes[i + 1].kind = "added"
     \/ changes[i].kind = "added" /\ changes[i + 1].kind = "removed"
  /\ NoisePair(changes[i].value, changes[i + 1].value)

ComparedValueAt(changes, i) ==
  IF changes[i].kind = "added" THEN changes[i].value ELSE changes[i + 1].value

RECURSIVE ReplaceNoisePairs(_, _)
\* every noise pair, from the left, replaced by one equal token with the
\* compared-side value; every other blank token relabelled equal
ReplaceNoisePairs(changes, i) ==
  IF i > Len(changes) THEN <<>>
  ELSE IF NoisePairAt(changes, i)
  THEN << Token(ComparedValueAt(changes, i), "equal") >> \o ReplaceNoisePairs(changes, i + 2)
  ELSE << IF OnlySpacesAndTabs(changes[i].value)
          THEN Token(changes[i].value, "equal") ELSE changes[i] >>
       \o ReplaceNoisePairs(changes, i + 1)

RECURSIVE MergeAdjacentKinds(_)
MergeAdjacentKinds(tokens) ==
  IF Len(tokens) <= 1 THEN tokens
  ELSE LET rest == MergeAdjacentKinds(Tail(tokens))
       IN  IF Head(tokens).kind = Head(rest).kind
           THEN << Token(Head(tokens).value \o Head(rest).value, Head(tokens).kind) >>
                  \o Tail(rest)
           ELSE << Head(tokens) >> \o rest

NoBlankChange(tokens) ==
  \A t \in Range(tokens) : t.kind # "equal" => ~OnlySpacesAndTabs(t.value)

NoAdjacentSameKind(tokens) ==
  \A i \in 1 .. (Len(tokens) - 1) : tokens[i].kind # tokens[i + 1].kind

\* C23 (as claimed): for every list of raw changes the result of
\* collapseWhitespaceNoiseTokens has (a) no added or removed token of spaces
\* and tabs only, (b) every adjacent noise pair (removed X, added Y) or
\* (added Y, removed X) of the input replaced by a single equal token with the
\* compared-side value Y, and (c) no two adjacent tokens of the same kind.
C23_NoisePairsBecomeComparedValue ==
  Collapsed =>
    /\ NoBlankChange(comparison.tokens)
    /\ comparison.tokens = MergeAdjacentKinds(ReplaceNoisePairs(comparison.changes, 1))
    /\ NoAdjacentSameKind(comparison.tokens)

\* what holds: (a) and (c) always, (b) for the pairs whose values are not blank
C23_HoldsForNonBlankPairs ==
  Collapsed =>
    /\ NoBlankChange(comparison.tokens)
    /\ NoAdjacentSameKind(comparison.tokens)
    /\ (\A i \in DOMAIN comparison.changes :
          NoisePairAt(comparison.changes, i) =>
            ~OnlySpacesAndTabs(comparison.changes[i].value))
         => comparison.tokens = MergeAdjacentKinds(ReplaceNoisePairs(comparison.changes, 1))

\* one space removed and two spaces added: the result is one equal token of
\* three spaces, not of the two spaces of the compared side
C23_WitnessBlankPair ==
  /\ Collapsed
  /\ comparison.changes = << Token(" ", "removed"), Token("  ", "added") >>
  /\ comparison.tokens = << Token("   ", "equal") >>

(***************************************************************************)
(* Clause parser  (src/src/lib/pdf/extractParagraphs.ts)                   *)
(*                                                                         *)
(* A PageLine is [n, words, page, x, y]: words are the whitespace-separated*)
(* words of its (trimmed, non-empty) text and n is its position in the     *)
(* document's line stream.  The regular expressions are given by what they *)
(* match among the words the model draws from.                             *)
(***************************************************************************)
NoLine == [none |-> "line"]

MIN_ROOT_CLAUSES_BEFORE_APPENDIX_CUTOFF == 3
MAX_APPENDIX_HEADER_WORDS == 10
INDENT_SPACE_STEP == 8
MAX_INDENT_SPACES == 24
DEFAULT_LINE_SPACING == 11
MAX_LINE_GAP == 60
SECTION_START_LOOKAHEAD == 20

\* the pieces of a text as one string
RECURSIVE ConcatAll(_)
ConcatAll(pieces) == IF pieces = <<>> THEN "" ELSE Head(pieces) \o ConcatAll(Tail(pieces))

\* group 1 of ROOT_CLAUSE_REGEX / ROOT_LABEL_ONLY_REGEX on a first word, else Null
RootLabelOf(word) ==
  CASE word = "1."   -> "1"
    [] word = "2"    -> "2"
    [] word = "3)"   -> "3"
    [] word = "4."   -> "4"
    [] word = "1(a)" -> "1(a)"
    [] word \in { "3", "4", "12", "42" } -> word
    [] OTHER         -> Null

\* group 1 of MARKER_CLAUSE_REGEX / MARKER_LABEL_ONLY_REGEX on a first word, else Null
MarkerTokenOf(word) ==
  CASE word = "(a)"  -> "a"
    [] word = "(i)"  -> "i"
    [] word = "(IV)" -> "IV"
    [] word = "(1)"  -> "1"
    [] OTHER         -> Null

\* String.prototype.toLowerCase
ToLowerCase(token) ==
  CASE token = "IV" -> "iv"
    [] OTHER        -> token

\* /^[ivxlcdm]+$/.test(token), without the i flag
IsLowerRoman(token) == token \in { "i", "iv" }

IsRomanLowerOnly(token) == IsLowerRoman(token)

\* /^[ivxlcdm]+$/i.test(token)
IsRoman(token) == IsLowerRoman(ToLowerCase(token))

\* /^\d+$/.test(token)
IsNumeric(token) == token \in { "1" }

\* value.trim().replace(/\s+/g, "").replace(/\.$/, "").toLowerCase()
normalizeParagraphKey(label) == ToLowerCase(label)

MatchesRootClause(words)     == RootLabelOf(words[1]) # Null /\ Len(words) > 1
MatchesRootLabelOnly(words)  == RootLabelOf(words[1]) # Null /\ Len(words) = 1
MatchesMarkerClause(words)   == MarkerTokenOf(words[1]) # Null /\ Len(words) > 1
MatchesMarkerLabelOnly(words) == MarkerTokenOf(words[1]) # Null /\ Len(words) = 1

isRootStartLine(words)   == MatchesRootClause(words) \/ MatchesRootLabelOnly(words)
isMarkerStartLine(words) == MatchesMarkerClause(words) \/ MatchesMarkerLabelOnly(words)
isClauseStartLine(words) == isRootStartLine(words) \/ isMarkerStartLine(words)

\* the text of a line as pieces: its words with one space between them
RECURSIVE LineText(_)
LineText(words) ==
  IF Len(words) <= 1 THEN words
  ELSE << Head(words), " " >> \o LineText(Tail(words))

\* /[-..]$/.test(text): the text, a sequence of pieces, ends with a hyphen-like character
EndsWithHyphen(text) == text # <<>> /\ text[Len(text)] \in { "obli-", "-" }

Max(a, b) == IF a >= b THEN a ELSE b
Min(a, b) == IF a <= b THEN a ELSE b
Abs(a)    == IF a >= 0 THEN a ELSE 0 - a

\* Math.round(delta / INDENT_SPACE_STEP) for delta >= 0
calculateIndentPrefix(lineX, baseX) ==
  LET delta  == Max(0, lineX - baseX)
      spaces == Max(0, (2 * delta + INDENT_SPACE_STEP) \div (2 * INDENT_SPACE_STEP))
  IN  Spaces(Min(MAX_INDENT_SPACES, spaces))

RECURSIVE InsertSorted(_, _)
InsertSorted(sorted, v) ==
  IF sorted = <<>> THEN << v >>
  ELSE IF v <= Head(sorted) THEN << v >> \o sorted
  ELSE << Head(sorted) >> \o InsertSorted(Tail(sorted), v)

RECURSIVE SortAscending(_)
SortAscending(values) ==
  IF values = <<>> THEN <<>> ELSE InsertSorted(SortAscending(Tail(values)), Head(values))

\* twice the median (the median of an even number of values may be a half)
median2(values) ==
  IF values = <<>> THEN 0
  ELSE LET sorted == SortAscending(values)
           middle == Len(sorted) \div 2
       IN  IF Len(sorted) % 2 = 0
           THEN sorted[middle] + sorted[middle + 1]
           ELSE 2 * sorted[middle + 1]

RECURSIVE PageDeltas(_, _, _)
\* the gaps previous.y - current.y of consecutive lines of one page, from index on
PageDeltas(lns, page, index) ==
  IF index > Len(lns) THEN <<>>
  ELSE LET deltaY == lns[index - 1].y - lns[index].y
       IN  ( IF /\ lns[index - 1].page = lns[index].page /\ lns[index].page = page
                /\ deltaY > 0 /\ deltaY <= MAX_LINE_GAP
             THEN << deltaY >> ELSE <<>> ) \o PageDeltas(lns, page, index + 1)

\* buildPageSpacingMap: page -> twice the median gap, 0 for a page not in the map
buildPageSpacingMap(lns) ==
  [ page \in { l.page : l \in Range(lns) } |-> median2(PageDeltas(lns, page, 2)) ]

\* pageSpacingMap.get(page) ?? 11, doubled
SpacingOf2(pageSpacingMap, page) ==
  IF page \in DOMAIN pageSpacingMap /\ pageSpacingMap[page] > 0
  THEN pageSpacingMap[page] ELSE 2 * DEFAULT_LINE_SPACING

\* as chooseContinuationSeparator, the paragraph gap tested before the labels
chooseContinuationSeparatorGapFirst(previousLine, nextLine, clauseBaseX, pageSpacingMap) ==
  IF previousLine.page # nextLine.page THEN "\n"
  ELSE IF 200 * (previousLine.y - nextLine.y) > 155 * SpacingOf2(pageSpacingMap, nextLine.page)
  THEN "\n"
  ELSE IF MatchesRootLabelOnly(previousLine.words) \/ MatchesMarkerLabelOnly(previousLine.words)
  THEN "\n"
  ELSE IF MatchesRootClause(previousLine.words) \/ MatchesMarkerClause(previousLine.words)
  THEN " "
  ELSE IF 2 * Abs(nextLine.x - previousLine.x) >= 3 * INDENT_SPACE_STEP
  THEN "\n"
  ELSE " "

\* deltaY > spacing * 1.55, and |dx| >= INDENT_SPACE_STEP * 1.5
chooseContinuationSeparator(previousLine, nextLine, clauseBaseX, pageSpacingMap) ==
  IF previousLine.page # nextLine.page THEN "\n"
  ELSE IF MatchesRootLabelOnly(previousLine.words) \/ MatchesMarkerLabelOnly(previousLine.words)
  THEN "\n"
  ELSE IF MatchesRootClause(previousLine.words) \/ MatchesMarkerClause(previousLine.words)
  THEN " "
  ELSE IF 200 * (previousLine.y - nextLine.y) > 155 * SpacingOf2(pageSpacingMap, nextLine.page)
  THEN "\n"
  ELSE IF 2 * Abs(nextLine.x - previousLine.x) >= 3 * INDENT_SPACE_STEP
  THEN "\n"
  ELSE " "

\* as appendLineWithStructure, the page of the line going to pageStart
appendLineWithStructureMovesStart(clause, previousLine, nextLine, clauseBaseX, pageSpacingMap) ==
  LET separator ==
        chooseContinuationSeparator(previousLine, nextLine, clauseBaseX, pageSpacingMap)
      text ==
        IF separator = "\n"
        THEN clause.textPreserved
               \o << "\n", calculateIndentPrefix(nextLine.x, clauseBaseX) >>
               \o LineText(nextLine.words)
        ELSE IF EndsWithHyphen(clause.textPreserved)
        THEN clause.textPreserved \o LineText(nextLine.words)
        ELSE clause.textPreserved \o << " " >> \o LineText(nextLine.words)
  IN  [ clause EXCEPT !.textPreserved = text,
                      !.pageStart = nextLine.page,
                      !.sourceLineCount = clause.sourceLineCount + 1,
                      !.sourceLines = Append(clause.sourceLines, nextLine.n) ]

appendLineWithStructure(clause, previousLine, nextLine, clauseBaseX, pageSpacingMap) ==
  LET separator ==
        chooseContinuationSeparator(previousLine, nextLine, clauseBaseX, pageSpacingMap)
      text ==
        IF separator = "\n"
        THEN clause.textPreserved
               \o << "\n", calculateIndentPrefix(nextLine.x, clauseBaseX) >>
               \o LineText(nextLine.words)
        ELSE IF EndsWithHyphen(clause.textPreserved)
        THEN clause.textPreserved \o LineText(nextLine.words)
        ELSE clause.textPreserved \o << " " >> \o LineText(nextLine.words)
  IN  [ clause EXCEPT !.textPreserved = text,
                      !.pageEnd = nextLine.page,
                      !.sourceLineCount = clause.sourceLineCount + 1,
                      !.sourceLines = Append(clause.sourceLines, nextLine.n) ]

\* text.trimEnd(): line texts are trimmed and not empty, so a clause text never
\* ends with white space
trimEnd(text) == text

NewClause(id, rawLabel, parentId, level, text, line, synthetic) ==
  [ id |-> id, rawLabel |-> rawLabel, parentId |-> parentId, level |-> level,
    textPreserved |-> text,
    pageStart |-> line.page, pageEnd |-> line.page,
    anchorPage |-> line.page, anchorY |-> line.y,
    synthetic |-> synthetic, sourceLineCount |-> 1,
    sourceLines |-> << line.n >> ]

\* finalizeClause(clauses, clause)
finalizeClause(clauses, clause) ==
  IF clause = NoClause THEN clauses
  ELSE Append(clauses, [ clause EXCEPT !.textPreserved = trimEnd(clause.textPreserved) ])

toIssueRecord(side, key, text, page, flag) ==
  [ key |-> << side, key, flag >>, originalLabel |-> key, text |-> text,
    pageStart |-> page, pageEnd |-> page, extractionFlags |-> << flag >> ]

RECURSIVE AppendLines(_, _, _, _, _)
\* the loop of flushUnmatched over unmatchedLines[offset..]
AppendLines(clause, lns, offset, baseX, pageSpacingMap) ==
  IF offset > Len(lns) THEN clause
  ELSE AppendLines(
         appendLineWithStructure(clause, lns[offset - 1], lns[offset], baseX, pageSpacingMap),
         lns, offset + 1, baseX, pageSpacingMap)

\* the state of parseSectionClauses before its loop
NewParser(sectionHeader, lns, side) ==
  [ sectionHeader |-> sectionHeader, side |-> side,
    pageSpacingMap |-> buildPageSpacingMap(lns),
    index |-> 0,
    clauses |-> <<>>, issues |-> <<>>,
    lineMapped |-> [ i \in DOMAIN lns |-> FALSE ],
    currentClause |-> NoClause, currentClauseBaseX |-> 0,
    currentClauseLastLine |-> NoLine,
    currentRootId |-> Null, currentLevel2Id |-> Null, currentLevel3Id |-> Null,
    unmatchedLines |-> <<>>, unmatchedIndex |-> 0 ]

\* as flushUnmatched, without the loop that appends the lines after the first
flushUnmatchedFirstLineOnly(p) ==
  IF p.unmatchedLines = <<>> THEN p
  ELSE LET unmatchedIndex == p.unmatchedIndex + 1
           first == p.unmatchedLines[1]
           syntheticClause ==
             NewClause("__unmatched_" \o ToString(unmatchedIndex),
                       "Unmatched " \o ToString(unmatchedIndex),
                       Undefined, 1, LineText(first.words), first, TRUE)
           clauses == finalizeClause(p.clauses, syntheticClause)
       IN  [ p EXCEPT
               !.unmatchedIndex = unmatchedIndex,
               !.clauses = clauses,
               !.issues = Append(p.issues,
                 toIssueRecord(p.side, << p.sectionHeader, "unmatched", unmatchedIndex >>,
                               clauses[Len(clauses)].textPreserved,
                               syntheticClause.pageStart, "unmatched")),
               !.unmatchedLines = <<>> ]

flushUnmatched(p) ==
  IF p.unmatchedLines = <<>> THEN p
  ELSE LET unmatchedIndex == p.unmatchedIndex + 1
           first == p.unmatchedLines[1]
           syntheticClause ==
             AppendLines(
               NewClause("__unmatched_" \o ToString(unmatchedIndex),
                         "Unmatched " \o ToString(unmatchedIndex),
                         Undefined, 1, LineText(first.words), first, TRUE),
               p.unmatchedLines, 2, first.x, p.pageSpacingMap)
           clauses == finalizeClause(p.clauses, syntheticClause)
       IN  [ p EXCEPT
               !.unmatchedIndex = unmatchedIndex,
               !.clauses = clauses,
               !.issues = Append(p.issues,
                 toIssueRecord(p.side, << p.sectionHeader, "unmatched", unmatchedIndex >>,
                               clauses[Len(clauses)].textPreserved,
                               syntheticClause.pageStart, "unmatched")),
               !.unmatchedLines = <<>> ]

finalizeCurrentClause(p) ==
  [ p EXCEPT !.clauses = finalizeClause(p.clauses, p.currentClause),
             !.currentClause = NoClause,
             !.currentClauseLastLine = NoLine ]

markMapped(p, lineIndex) == [ p EXCEPT !.lineMapped[lineIndex] = TRUE ]

startClause(p, clause, line, lineIndex) ==
  markMapped(
    [ flushUnmatched(finalizeCurrentClause(p)) EXCEPT
        !.currentClause = clause,
        !.currentClauseBaseX = line.x,
        !.currentClauseLastLine = line ],
    lineIndex)

appendToCurrentClauseUnmarked(p, line, lineIndex) ==
  IF p.currentClause = NoClause \/ p.currentClauseLastLine = NoLine THEN p
  ELSE [ p EXCEPT
           !.currentClause =
             appendLineWithStructure(p.currentClause, p.currentClauseLastLine, line,
                                     p.currentClauseBaseX, p.pageSpacingMap),
           !.currentClauseLastLine = line ]

appendToCurrentClause(p, line, lineIndex) ==
  IF p.currentClause = NoClause \/ p.currentClauseLastLine = NoLine THEN p
  ELSE markMapped(
         [ p EXCEPT
             !.currentClause =
               appendLineWithStructure(p.currentClause, p.currentClauseLastLine, line,
                                       p.currentClauseBaseX, p.pageSpacingMap),
             !.currentClauseLastLine = line ],
         lineIndex)

pushUnmatched(p, line) == [ p EXCEPT !.unmatchedLines = Append(p.unmatchedLines, line) ]

\* as AbsorbNext, without index += 1 after the line was taken
AbsorbNextNoSkip(p, lns, index) ==
  IF index + 1 <= Len(lns) /\ ~isClauseStartLine(lns[index + 1].words)
  THEN [ appendToCurrentClause(p, lns[index + 1], index + 1) EXCEPT !.index = index ]
  ELSE [ p EXCEPT !.index = index ]

\* if (next && !isClauseStartLine(next.text.trim())): the line after a label-only
\* line is taken as its body; advance is the number of lines consumed
AbsorbNext(p, lns, index) ==
  IF index + 1 <= Len(lns) /\ ~isClauseStartLine(lns[index + 1].words)
  THEN [ appendToCurrentClause(p, lns[index + 1], index + 1) EXCEPT !.index = index + 1 ]
  ELSE [ p EXCEPT !.index = index ]

MarkerLevelRootParent(p, rawToken) ==
  IF p.currentLevel3Id # Null /\ IsNumeric(rawToken)
  THEN [ level |-> 4, parentId |-> p.currentLevel3Id ]
  ELSE IF p.currentLevel2Id # Null /\ IsRoman(rawToken)
  THEN [ level |-> 3, parentId |-> p.currentRootId ]
  ELSE [ level |-> 2, parentId |-> p.currentRootId ]

\* level and parent of a marker token under the active root
MarkerLevel(p, rawToken) ==
  IF p.currentLevel3Id # Null /\ IsNumeric(rawToken)
  THEN [ level |-> 4, parentId |-> p.currentLevel3Id ]
  ELSE IF p.currentLevel2Id # Null /\ IsRoman(rawToken)
  THEN [ level |-> 3, parentId |-> p.currentLevel2Id ]
  ELSE [ level |-> 2, parentId |-> p.currentRootId ]

MarkerId(parentId, rawToken) == parentId \o "(" \o ToLowerCase(rawToken) \o ")"

\* as SetRoot, the marker ids of the root before staying active
SetRootKeepMarkers(p, rootId) == [ p EXCEPT !.currentRootId = rootId ]

\* currentRootId = rootId; currentLevel2Id = null; currentLevel3Id = null
SetRoot(p, rootId) ==
  [ p EXCEPT !.currentRootId = rootId, !.currentLevel2Id = Null, !.currentLevel3Id = Null ]

SetMarkerKeepLevel3(p, id, level) ==
  IF level = 2 THEN [ p EXCEPT !.currentLevel2Id = id ]
  ELSE IF level = 3 THEN [ p EXCEPT !.currentLevel3Id = id ]
  ELSE p

\* if (level === 2) {...} else if (level === 3) {...}
SetMarker(p, id, level) ==
  IF level = 2 THEN [ p EXCEPT !.currentLevel2Id = id, !.currentLevel3Id = Null ]
  ELSE IF level = 3 THEN [ p EXCEPT !.currentLevel3Id = id ]
  ELSE p

\* as LineBranch, without the branch that appends to the open clause
LineBranchNoContinuation(p, words) ==
  IF MatchesRootClause(words) THEN "root"
  ELSE IF MatchesRootLabelOnly(words) THEN "rootLabelOnly"
  ELSE IF MatchesMarkerClause(words) /\ p.currentRootId # Null THEN "marker"
  ELSE IF MatchesMarkerLabelOnly(words) /\ p.currentRootId # Null THEN "markerLabelOnly"
  ELSE "unmatched"

\* which branch of the loop body takes the line
LineBranch(p, words) ==
  IF MatchesRootClause(words) THEN "root"
  ELSE IF MatchesRootLabelOnly(words) THEN "rootLabelOnly"
  ELSE IF MatchesMarkerClause(words) /\ p.currentRootId # Null THEN "marker"
  ELSE IF MatchesMarkerLabelOnly(words) /\ p.currentRootId # Null THEN "markerLabelOnly"
  ELSE IF p.currentClause # NoClause THEN "continuation"
  ELSE "unmatched"

RootLine(p, lns, index) ==
  LET line      == lns[index]
      rootLabel == RootLabelOf(line.words[1])
      rootId    == normalizeParagraphKey(rootLabel)
  IN  IF rootId = "" THEN [ pushUnmatched(p, line) EXCEPT !.index = index ]
      ELSE [ SetRoot(startClause(p, NewClause(rootId, rootLabel, Undefined, 1,
                                              LineText(line.words), line, FALSE),
                                 line, index), rootId)
               EXCEPT !.index = index ]

RootLabelOnlyLine(p, lns, index) ==
  LET line      == lns[index]
      rootLabel == RootLabelOf(line.words[1])
      rootId    == normalizeParagraphKey(rootLabel)
  IN  IF rootId = "" THEN [ pushUnmatched(p, line) EXCEPT !.index = index ]
      ELSE AbsorbNext(
             SetRoot(startClause(p, NewClause(rootId, rootLabel, Undefined, 1,
                                              << rootLabel >>, line, FALSE),
                                 line, index), rootId),
             lns, index)

MarkerLine(p, lns, index) ==
  LET line     == lns[index]
      rawToken == MarkerTokenOf(line.words[1])
      lp       == MarkerLevel(p, rawToken)
      id       == MarkerId(lp.parentId, rawToken)
  IN  [ SetMarker(startClause(p, NewClause(id, "(" \o rawToken \o ")", lp.parentId, lp.level,
                                           LineText(line.words), line, FALSE),
                              line, index), id, lp.level)
          EXCEPT !.index = index ]

MarkerLabelOnlyLine(p, lns, index) ==
  LET line     == lns[index]
      rawToken == MarkerTokenOf(line.words[1])
      lp       == MarkerLevel(p, rawToken)
      id       == MarkerId(lp.parentId, rawToken)
      started  == startClause(p, NewClause(id, "(" \o rawToken \o ")", lp.parentId, lp.level,
                                           << "(" \o rawToken \o ")" >>, line, FALSE),
                              line, index)
  IN  SetMarker(AbsorbNext(started, lns, index), id, lp.level)

\* one iteration of the for loop of parseSectionClauses, on line p.index + 1
ParseLine(p, lns) ==
  LET index  == p.index + 1
      line   == lns[index]
      branch == LineBranch(p, line.words)
  IN  CASE branch = "root"            -> RootLine(p, lns, index)
        [] branch = "rootLabelOnly"   -> RootLabelOnlyLine(p, lns, index)
        [] branch = "marker"          -> MarkerLine(p, lns, index)
        [] branch = "markerLabelOnly" -> MarkerLabelOnlyLine(p, lns, index)
        [] branch = "continuation"    ->
             [ appendToCurrentClause(p, line, index) EXCEPT !.index = index ]
        [] OTHER                      -> [ pushUnmatched(p, line) EXCEPT !.index = index ]

CountTrue(flags) == Cardinality({ i \in DOMAIN flags : flags[i] })

\* what parseSectionClauses does after its loop, and returns
ParseResult(p, lns) ==
  LET done        == flushUnmatched(finalizeCurrentClause(p))
      mappedLines == CountTrue(done.lineMapped)
      totalLines  == Len(lns)
  IN  [ clauses |-> done.clauses,
        coverage |-> [ totalLines |-> totalLines,
                       mappedLines |-> mappedLines,
                       unmatchedLines |-> Max(0, totalLines - mappedLines),
                       percent10 |-> IF totalLines = 0 THEN 1000
                                     ELSE (2000 * mappedLines + totalLines) \div (2 * totalLines) ],
        issues |-> done.issues ]

(***************************************************************************)
(* Parsing one section line by line                                        *)
(***************************************************************************)
MaxLines == 4

\* the line texts a section is drawn from
ParseWords ==
  { << "1.", "alpha" >>, << "2" >>, << "1(a)", "zeta" >>,
    << "(a)", "beta" >>, << "(IV)", "gamma" >>, << "(1)", "delta" >>,
    << "(a)" >>, << "(i)" >>, << "(1)" >>,
    << "body" >> }

\* lines of one page, one under the other at the left margin
Layout(texts) ==
  [ i \in DOMAIN texts |-> [ n |-> i, words |-> texts[i], page |-> 1, x |-> 72,
                             y |-> 700 - 14 * i ] ]

InitParse ==
  /\ sectionLines \in { Layout(texts) : texts \in SeqsUpTo(ParseWords, MaxLines) }
  /\ ps = NewParser("Objective", sectionLines, "base")
  /\ parsed = NoResult
  /\ store = [ id \in {} |-> NoRecord ] /\ clock = 0 /\ files = {}
  /\ lastSave = <<>> /\ evicted = {} /\ response = NoResult
  /\ baseDocument = <<>> /\ comparedDocument = <<>> /\ comparison = NoResult
  /\ lines = <<>> /\ extracted = NoResult
  /\ pageLines = <<>> /\ footerFiltered = NoResult /\ superscripted = NoResult
  /\ extraction = NoResult

Parsing == parsed = NoResult /\ ps.index < Len(sectionLines)

NextBranch == LineBranch(ps, sectionLines[ps.index + 1].words)

Step ==
  /\ ps' = ParseLine(ps, sectionLines)
  /\ UNCHANGED <<sectionLines, parsed>>
  /\ UNCHANGED <<storeVars, compareVars, extractVars, lineVars>>

StartRoot            == Parsing /\ NextBranch = "root" /\ Step
StartRootLabelOnly   == Parsing /\ NextBranch = "rootLabelOnly" /\ Step
StartMarker          == Parsing /\ NextBranch = "marker" /\ Step
StartMarkerLabelOnly == Parsing /\ NextBranch = "markerLabelOnly" /\ Step
Continuation         == Parsing /\ NextBranch = "continuation" /\ Step
UnmatchedLine        == Parsing /\ NextBranch = "unmatched" /\ Step

FinishParse ==
  /\ parsed = NoResult
  /\ ps.index >= Len(sectionLines)
  /\ parsed' = ParseResult(ps, sectionLines)
  /\ UNCHANGED <<sectionLines, ps>>
  /\ UNCHANGED <<storeVars, compareVars, extractVars, lineVars>>

NextParse ==
  \/ StartRoot
  \/ StartRootLabelOnly
  \/ StartMarker
  \/ StartMarkerLabelOnly
  \/ Continuation
  \/ UnmatchedLine
  \/ FinishParse

SpecParse == InitParse /\ [][NextParse]_vars

Parsed == parsed # NoResult

\* the lines that were taken into one of the given clauses
ConsumedBy(clauses) == UNION { Range(c.sourceLines) : c \in Range(clauses) }

Labelled(clauses)  == SelectSeq(clauses, LAMBDA c : ~c.synthetic)
Synthetic(clauses) == SelectSeq(clauses, LAMBDA c : c.synthetic)

HasParentEarlier(clauses) ==
  \A i \in DOMAIN clauses :
    clauses[i].parentId # Undefined =>
      \E j \in 1 .. (i - 1) :
        /\ clauses[j].id = clauses[i].parentId
        /\ clauses[j].level = clauses[i].level - 1

C6_ParentPrecedesChild ==
  /\ ps # NoResult => HasParentEarlier(ps.clauses)
  /\ Parsed => HasParentEarlier(parsed.clauses)

C6_Witness ==
  /\ Parsed
  /\ { c.level : c \in Range(parsed.clauses) } = { 1, 2, 3, 4 }

IsMarkerStep ==
  /\ Parsing
  /\ NextBranch \in { "marker", "markerLabelOnly" }
  /\ ps'.index > ps.index

MarkerStepToken == MarkerTokenOf(sectionLines[ps.index + 1].words[1])

\* the level and parent the claim gives a marker token, by a test of the token
\* against the roman letters
ClaimedLevel(p, token, roman(_)) ==
  IF IsNumeric(token) /\ p.currentLevel3Id # Null
  THEN [ level |-> 4, parentId |-> p.currentLevel3Id ]
  ELSE IF roman(token) /\ p.currentLevel2Id # Null
  THEN [ level |-> 3, parentId |-> p.currentLevel2Id ]
  ELSE [ level |-> 2, parentId |-> p.currentRootId ]

MarkerStepFollows(roman(_)) ==
  IsMarkerStep =>
    LET claimed == ClaimedLevel(ps, MarkerStepToken, roman)
        started == ps'.currentClause
    IN  /\ started # NoClause
        /\ started.level = claimed.level
        /\ started.parentId = claimed.parentId
        /\ started.id = claimed.parentId \o "(" \o ToLowerCase(MarkerStepToken) \o ")"
        /\ claimed.level = 2 => ps'.currentLevel3Id = Null

RootStepClears ==
  ( /\ Parsing
    /\ NextBranch \in { "root", "rootLabelOnly" }
    /\ ps'.index > ps.index )
  => /\ ps'.currentLevel2Id = Null
     /\ ps'.currentLevel3Id = Null

\* C7 as stated: the roman test is that the token matches ^[ivxlcdm]+$
C7_MarkerLevelLowerCaseRoman ==
  [][ MarkerStepFollows(IsRomanLowerOnly) /\ RootStepClears ]_vars

\* C7: a marker line with token tok under an active root starts a clause of
\* level 4 under the active level-3 clause when tok is numeric and a level-3
\* clause is active; otherwise of level 3 under the active level-2 clause when
\* tok matches ^[ivxlcdm]+$ ignoring case and a level-2 clause is active;
\* otherwise of level 2 under the root; its id is parentId + "(" +
\* lowercase(tok) + ")".  A new root clears the active level-2 and level-3
\* clause; a new level-2 clause clears the active level-3 clause.
C7_MarkerLevelAnyCaseRoman ==
  [][ MarkerStepFollows(IsRoman) /\ RootStepClears ]_vars

C7_Witness ==
  /\ ps # NoResult
  /\ ps.currentClause # NoClause
  /\ ps.currentClause.level = 3
  /\ ps.currentClause.id = "1(a)(iv)"
  /\ ps.currentLevel3Id = "1(a)(iv)"

\* the active parents as a stack: the fields that are set, from the root up
ActiveStack(p) ==
  IF p.currentRootId = Null THEN <<>>
  ELSE IF p.currentLevel2Id = Null THEN << p.currentRootId >>
  ELSE IF p.currentLevel3Id = Null THEN << p.currentRootId, p.currentLevel2Id >>
  ELSE << p.currentRootId, p.currentLevel2Id, p.currentLevel3Id >>

\* the three fields are the bottom three slots of the stack
FieldsAreStack(p) ==
  LET stack    == ActiveStack(p)
      slot(k)  == IF k <= Len(stack) THEN stack[k] ELSE Null
  IN  /\ p.currentRootId = slot(1)
      /\ p.currentLevel2Id = slot(2)
      /\ p.currentLevel3Id = slot(3)

\* child = parent + "(" + token + ")" for one lower-case marker token
ExtendsByOneToken(child, parent) ==
  \E token \in { "a", "i", "iv", "1" } : child = parent \o "(" \o token \o ")"

StackIdsChained(p) ==
  LET stack == ActiveStack(p)
  IN  \A k \in 2 .. Len(stack) : ExtendsByOneToken(stack[k], stack[k - 1])

\* the clause the step from p to q started, NoClause when it started none
StartedBy(p, q) ==
  IF q.currentClause # NoClause /\ q.currentClause.sourceLines[1] = p.index + 1
  THEN q.currentClause ELSE NoClause

\* truncate to depth level - 1 and push, for the levels 1..3
StackAfter(stack, started) ==
  IF started = NoClause \/ started.level = 4 THEN stack
  ELSE Append(SubSeq(stack, 1, started.level - 1), started.id)

\* C25: after every processed line the fields currentRootId, currentLevel2Id
\* and currentLevel3Id are the bottom three slots of a stack of active parents
\* that is truncated to depth k - 1 and pushed with the new id when a clause of
\* level k in 1..3 starts and left unchanged when a level-4 clause starts; so
\* currentLevel3Id set implies currentLevel2Id set implies currentRootId set,
\* and each set id extends the one below it by exactly one "(token)" suffix.
C25_ScalarFieldsAreParentStack ==
  [][ (Parsing /\ ps'.index > ps.index) =>
        LET started == StartedBy(ps, ps')
        IN  /\ FieldsAreStack(ps')
            /\ started # NoClause => Len(ActiveStack(ps)) >= started.level - 1
            /\ ActiveStack(ps') = StackAfter(ActiveStack(ps), started)
            /\ StackIdsChained(ps') ]_vars

\* a level-2 clause started after a level-3 clause of the same root: the stack
\* was cut back to the root and the new id pushed
C25_Witness ==
  /\ ps # NoResult /\ parsed = NoResult
  /\ \E c \in Range(ps.clauses) : c.level = 3
  /\ ps.currentClause # NoClause /\ ps.currentClause.level = 2
  /\ ps.clauses[Len(ps.clauses)].level = 3
  /\ ActiveStack(ps) = << ps.currentClause.parentId, ps.currentClause.id >>
  /\ ps.currentLevel3Id = Null

RECURSIVE SumSourceLineCount(_)
SumSourceLineCount(clauses) ==
  IF clauses = <<>> THEN 0
  ELSE Head(clauses).sourceLineCount + SumSourceLineCount(Tail(clauses))

\* the clauses that took line n of the section
ClausesWithLine(clauses, n) ==
  { i \in DOMAIN clauses : \E k \in DOMAIN clauses[i].sourceLines :
                             clauses[i].sourceLines[k] = n }

\* line n is a bare label that started a labelled clause
StartedByBareLabel(clauses, n) ==
  /\ Len(sectionLines[n].words) = 1
  /\ isClauseStartLine(sectionLines[n].words)
  /\ \E c \in Range(clauses) : ~c.synthetic /\ c.sourceLines[1] = n

\* C27: each section line is consumed by exactly one clause: the sum of
\* sourceLineCount over all clauses, synthetic included, is coverage.totalLines
\* and the sum over the non-synthetic clauses is coverage.mappedLines; a
\* label-only line and the body line absorbed right after it are two lines of
\* the same clause, and the absorbed line is never also a clause start.
C27_EveryLineInExactlyOneClause ==
  Parsed =>
    /\ SumSourceLineCount(parsed.clauses) = parsed.coverage.totalLines
    /\ SumSourceLineCount(Labelled(parsed.clauses)) = parsed.coverage.mappedLines
    /\ \A c \in Range(parsed.clauses) : c.sourceLineCount = Len(c.sourceLines)
    /\ \A n \in DOMAIN sectionLines : Cardinality(ClausesWithLine(parsed.clauses, n)) = 1
    /\ \A n \in DOMAIN sectionLines :
         ( /\ StartedByBareLabel(parsed.clauses, n)
           /\ n + 1 \in DOMAIN sectionLines
           /\ ~isClauseStartLine(sectionLines[n + 1].words) ) =>
           \A c \in Range(parsed.clauses) :
             /\ c.sourceLines[1] = n =>
                  Len(c.sourceLines) >= 2 /\ c.sourceLines[2] = n + 1
             /\ c.sourceLines[1] # n + 1

\* an unlabelled line, a bare root label with its absorbed body line, and a
\* marker clause: four lines in three clauses
C27_Witness ==
  /\ Parsed
  /\ Len(sectionLines) = 4
  /\ sectionLines[2].words = << "2" >> /\ sectionLines[3].words = << "body" >>
  /\ Len(parsed.clauses) = 3
  /\ parsed.clauses[1].synthetic
  /\ parsed.clauses[2].sourceLines = << 2, 3 >>
  /\ parsed.coverage.mappedLines = 3

\* a labelled clause has started: one is open or was finalized
LabelledStarted(p) ==
  \/ p.currentClause # NoClause
  \/ Labelled(p.clauses) # <<>>

AtMostOneSyntheticFirst(clauses) ==
  /\ Len(Synthetic(clauses)) <= 1
  /\ \A i \in DOMAIN clauses :
       clauses[i].synthetic => (i = 1 /\ clauses[i].id = "__unmatched_1")

\* C28: a section has at most one synthetic clause; when present its id is
\* __unmatched_1 and it is the first clause.  Lines enter the unmatched buffer
\* only before the first labelled clause starts (marker lines met before any
\* root included); once a labelled clause has started the buffer stays empty.
C28_UnmatchedOnlyBeforeFirstClause ==
  /\ AtMostOneSyntheticFirst(ps.clauses)
  /\ LabelledStarted(ps) => ps.unmatchedLines = <<>>
  /\ ps.unmatchedLines # <<>> => ps.clauses = <<>>
  /\ Parsed =>
       /\ AtMostOneSyntheticFirst(parsed.clauses)
       /\ \A c \in Range(parsed.clauses) : \A d \in Range(parsed.clauses) :
            (c.synthetic /\ ~d.synthetic) =>
              \A n \in Range(c.sourceLines) : \A m \in Range(d.sourceLines) : n < m

\* a marker line and a plain line before the first root, then a root and a
\* continuation line: one synthetic clause of two lines, first in the section
C28_Witness ==
  /\ Parsed
  /\ Len(sectionLines) = 4
  /\ MatchesMarkerClause(sectionLines[1].words)
  /\ sectionLines[4].words = << "body" >>
  /\ Len(parsed.clauses) = 2
  /\ parsed.clauses[1].id = "__unmatched_1"
  /\ parsed.clauses[1].sourceLines = << 1, 2 >>
  /\ parsed.clauses[2].sourceLines = << 3, 4 >>

(***************************************************************************)
(* Sections of a document's line stream                                    *)
(* (src/src/lib/pdf/extractParagraphs.ts)                                  *)
(*                                                                         *)
(* Indices are 1-based here; NotFound stands for the code's -1.            *)
(***************************************************************************)
NotFound == 0

\* HEADER_LOOKUP.get(normalizeHeader(line.text)), Null when there is none
HeaderLookup(words) ==
  CASE words = << "Objective" >> -> "Objective"
    [] words = << "OBJECTIVE" >> -> "Objective"
    [] words = << "Scope" >>     -> "Scope"
    [] words = << "Risk", "management" >> -> "Risk management"
    [] OTHER                     -> Null

\* APPENDIX_HEADER_PREFIX.test(normalized)
MatchesAppendixPrefix(words) == words[1] \in { "Appendix", "APPENDIX", "Appendixes" }

\* /[.!?]$/.test(normalized)
EndsWithTerminalPunctuation(words) == words[Len(words)] \in { "applies.", "follows?" }

RECURSIVE NormalizedLength(_)
\* collapseSpaces(lineText).length
NormalizedLength(words) ==
  IF words = <<>> THEN 0
  ELSE IF Len(words) = 1 THEN Len(words[1])
  ELSE Len(Head(words)) + 1 + NormalizedLength(Tail(words))

MAX_APPENDIX_HEADER_LENGTH == 90

isAppendixHeadingLine(words) ==
  /\ words # <<>>
  /\ MatchesAppendixPrefix(words)
  /\ NormalizedLength(words) <= MAX_APPENDIX_HEADER_LENGTH
  /\ Len(words) <= MAX_APPENDIX_HEADER_WORDS
  /\ ~EndsWithTerminalPunctuation(words)

isLikelySectionStart(lns, index) ==
  \E offset \in 1 .. SECTION_START_LOOKAHEAD :
    /\ index + offset <= Len(lns)
    /\ isRootStartLine(lns[index + offset].words)

RECURSIVE AscendingSeq(_)
\* .toSorted((a, b) => a.index - b.index)
AscendingSeq(indexes) ==
  IF indexes = {} THEN <<>>
  ELSE LET least == CHOOSE index \in indexes : \A other \in indexes : index <= other
       IN  << least >> \o AscendingSeq(indexes \ { least })

\* the first line of each header that is a likely section start, by index
findSectionBoundaries(lns) ==
  LET IsBoundary(index) ==
        /\ HeaderLookup(lns[index].words) # Null
        /\ isLikelySectionStart(lns, index)
      IsFirst(index) ==
        /\ IsBoundary(index)
        /\ \A earlier \in 1 .. (index - 1) :
             IsBoundary(earlier) =>
               HeaderLookup(lns[earlier].words) # HeaderLookup(lns[index].words)
      indexes == AscendingSeq({ index \in DOMAIN lns : IsFirst(index) })
  IN  [ k \in DOMAIN indexes |->
          [ header |-> HeaderLookup(lns[indexes[k]].words), index |-> indexes[k] ] ]

\* the number of root lines among the lines before position endExclusive
countRootClausesBefore(lns, endExclusive) ==
  Cardinality({ index \in 1 .. (endExclusive - 1) : isRootStartLine(lns[index].words) })

\* whether the loop of findAppendixStartIndex returns at this index
AppendixCutoffAt(lns, boundaries, index) ==
  /\ isAppendixHeadingLine(lns[index].words)
  /\ IF boundaries # <<>>
     THEN index > boundaries[Len(boundaries)].index
     ELSE countRootClausesBefore(lns, index) >= MIN_ROOT_CLAUSES_BEFORE_APPENDIX_CUTOFF

findAppendixStartIndexAfterHeading(lns, boundaries) ==
  LET hits == { index \in DOMAIN lns : AppendixCutoffAt(lns, boundaries, index) }
  IN  IF hits = {} THEN NotFound
      ELSE 1 + CHOOSE index \in hits : \A other \in hits : index <= other

findAppendixStartIndex(lns, boundaries) ==
  LET hits == { index \in DOMAIN lns : AppendixCutoffAt(lns, boundaries, index) }
  IN  IF hits = {} THEN NotFound
      ELSE CHOOSE index \in hits : \A other \in hits : index <= other

\* clauses.find / [...clauses].reverse().find of a labelled root clause
FirstRootId(clauses) ==
  LET roots == SelectSeq(clauses, LAMBDA c : c.level = 1 /\ ~c.synthetic)
  IN  IF roots = <<>> THEN Undefined ELSE roots[1].id

LastRootId(clauses) ==
  LET roots == SelectSeq(clauses, LAMBDA c : c.level = 1 /\ ~c.synthetic)
  IN  IF roots = <<>> THEN Undefined ELSE roots[Len(roots)].id

\* effectiveLines and effectiveBoundaries of extractSections
EffectiveLines(lns, appendixStartIndex) ==
  IF appendixStartIndex # NotFound THEN SubSeq(lns, 1, appendixStartIndex - 1) ELSE lns

EffectiveBoundaries(boundaries, effectiveLines) ==
  SelectSeq(boundaries, LAMBDA b : b.index <= Len(effectiveLines))

\* as SectionPlan, the slice of a section starting at its boundary line
SectionPlanFromBoundaryLine(effectiveLines, effectiveBoundaries) ==
  IF effectiveBoundaries = <<>>
  THEN << [ header |-> "Unsectioned", headerLine |-> 0, lines |-> effectiveLines ] >>
  ELSE [ k \in DOMAIN effectiveBoundaries |->
           [ header |-> effectiveBoundaries[k].header,
             headerLine |-> effectiveLines[effectiveBoundaries[k].index].n,
             lines |-> SubSeq(effectiveLines, effectiveBoundaries[k].index,
                              IF k < Len(effectiveBoundaries)
                              THEN effectiveBoundaries[k + 1].index - 1
                              ELSE Len(effectiveLines)) ] ]

\* the calls of parseSectionClauses that extractSections makes: the header and
\* the lines of each; headerLine is the position of the boundary line in the
\* stream, 0 for the section that has none
SectionPlan(effectiveLines, effectiveBoundaries) ==
  IF effectiveBoundaries = <<>>
  THEN << [ header |-> "Unsectioned", headerLine |-> 0, lines |-> effectiveLines ] >>
  ELSE [ k \in DOMAIN effectiveBoundaries |->
           [ header |-> effectiveBoundaries[k].header,
             headerLine |-> effectiveLines[effectiveBoundaries[k].index].n,
             lines |-> SubSeq(effectiveLines, effectiveBoundaries[k].index + 1,
                              IF k < Len(effectiveBoundaries)
                              THEN effectiveBoundaries[k + 1].index - 1
                              ELSE Len(effectiveLines)) ] ]

PlanSections(lns) ==
  LET boundaries     == findSectionBoundaries(lns)
      effectiveLines == EffectiveLines(lns, findAppendixStartIndex(lns, boundaries))
  IN  SectionPlan(effectiveLines, EffectiveBoundaries(boundaries, effectiveLines))

MaxStreamLines == 5

\* the line texts a document's stream is drawn from
StreamWords ==
  { << "Objective" >>, << "Scope" >>,
    << "1.", "alpha" >>, << "2" >>, << "body" >>,
    << "Appendix", "A" >>, << "Appendix", "B", "applies." >> }

InitExtract ==
  /\ lines \in { Layout(texts) : texts \in SeqsUpTo(StreamWords, MaxStreamLines) }
  /\ extracted = NoResult
  /\ store = [ id \in {} |-> NoRecord ] /\ clock = 0 /\ files = {}
  /\ lastSave = <<>> /\ evicted = {} /\ response = NoResult
  /\ baseDocument = <<>> /\ comparedDocument = <<>> /\ comparison = NoResult
  /\ sectionLines = <<>> /\ ps = NoResult /\ parsed = NoResult
  /\ pageLines = <<>> /\ footerFiltered = NoResult /\ superscripted = NoResult
  /\ extraction = NoResult

\* extractSections up to its first call of parseSectionClauses
SplitSections ==
  /\ extracted = NoResult
  /\ extracted' = [ plan |-> PlanSections(lines), sections |-> <<>>, issues |-> <<>>,
                    done |-> FALSE ]
  /\ sectionLines' = extracted'.plan[1].lines
  /\ ps' = NewParser(extracted'.plan[1].header, sectionLines', "base")
  /\ parsed' = NoResult
  /\ UNCHANGED lines
  /\ UNCHANGED <<storeVars, compareVars, lineVars>>

Extracting == extracted # NoResult /\ ~extracted.done

\* one iteration of the loop of parseSectionClauses on the current section
ParseSectionLine ==
  /\ Extracting
  /\ Parsing
  /\ Step

FinishSectionParse ==
  /\ Extracting
  /\ FinishParse

\* sections.push and issues.push of extractSections, then the next section
PushSection ==
  /\ Extracting
  /\ parsed # NoResult
  /\ LET k    == Len(extracted.sections) + 1
         todo == extracted.plan
     IN  /\ extracted' =
               [ extracted EXCEPT
                   !.sections = Append(@,
                     [ header |-> todo[k].header, headerLine |-> todo[k].headerLine,
                       clauses |-> parsed.clauses, coverage |-> parsed.coverage,
                       startParagraph |-> FirstRootId(parsed.clauses),
                       endParagraph |-> LastRootId(parsed.clauses) ]),
                   !.issues = @ \o parsed.issues,
                   !.done = (k = Len(todo)) ]
         /\ IF k < Len(todo)
            THEN /\ sectionLines' = todo[k + 1].lines
                 /\ ps' = NewParser(todo[k + 1].header, todo[k + 1].lines, "base")
                 /\ parsed' = NoResult
            ELSE UNCHANGED <<sectionLines, ps, parsed>>
  /\ UNCHANGED lines
  /\ UNCHANGED <<storeVars, compareVars, lineVars>>

NextExtract ==
  \/ SplitSections
  \/ ParseSectionLine
  \/ FinishSectionParse
  \/ PushSection

SpecExtract == InitExtract /\ [][NextExtract]_vars

Extracted == extracted # NoResult /\ extracted.done

\* the lines of the stream that became a section's header or part of a clause
Contributing(result) ==
  UNION { ({ sec.headerLine } \ { 0 }) \cup ConsumedBy(sec.clauses)
            : sec \in Range(result.sections) }

NothingFrom(index) ==
  \A later \in index .. Len(lines) : lines[later].n \notin Contributing(extracted)

\* C8 as stated: the heading comes after at least one section boundary
C8_AppendixAfterAnyBoundaryDropped ==
  Extracted =>
    LET boundaries == findSectionBoundaries(lines)
    IN  \A index \in DOMAIN lines :
          ( /\ isAppendixHeadingLine(lines[index].words)
            /\ \/ \E k \in DOMAIN boundaries : boundaries[k].index < index
               \/ /\ boundaries = <<>>
                  /\ countRootClausesBefore(lines, index)
                       >= MIN_ROOT_CLAUSES_BEFORE_APPENDIX_CUTOFF )
          => NothingFrom(index)

\* C8: when an appendix heading line (prefix appendix/appendixes, at most 10
\* words, at most 90 characters, no terminal . ! ?) comes after the last
\* section boundary of the stream, or after at least 3 root-clause lines when
\* the stream has no boundary, neither that line nor any later line becomes
\* the header of a section or part of the text of a clause.
C8_AppendixAfterLastBoundaryDropped ==
  Extracted =>
    LET boundaries == findSectionBoundaries(lines)
    IN  \A index \in DOMAIN lines :
          ( /\ isAppendixHeadingLine(lines[index].words)
            /\ \/ /\ boundaries # <<>>
                  /\ \A k \in DOMAIN boundaries : boundaries[k].index < index
               \/ /\ boundaries = <<>>
                  /\ countRootClausesBefore(lines, index)
                       >= MIN_ROOT_CLAUSES_BEFORE_APPENDIX_CUTOFF )
          => NothingFrom(index)

C8_WitnessNoBoundary ==
  /\ Extracted
  /\ findSectionBoundaries(lines) = <<>>
  /\ \E index \in DOMAIN lines :
       /\ index < Len(lines)
       /\ isAppendixHeadingLine(lines[index].words)
       /\ countRootClausesBefore(lines, index) >= MIN_ROOT_CLAUSES_BEFORE_APPENDIX_CUTOFF
       /\ Contributing(extracted) = { lines[k].n : k \in 1 .. (index - 1) }

C8_Witness ==
  /\ Extracted
  /\ Len(findSectionBoundaries(lines)) = 2
  /\ \E index \in DOMAIN lines :
       /\ index < Len(lines)
       /\ isAppendixHeadingLine(lines[index].words)
       /\ index > findSectionBoundaries(lines)[2].index
       /\ Contributing(extracted) # {}

RECURSIVE FlatMapSections(_)
\* the synthetic clauses of the sections, one after the other
FlatMapSections(sections) ==
  IF sections = <<>> THEN <<>>
  ELSE Synthetic(Head(sections).clauses) \o FlatMapSections(Tail(sections))

\* the stream positions of the lines of section k
SectionLinesOf(k) == { extracted.plan[k].lines[i].n : i \in DOMAIN extracted.plan[k].lines }

\* the lines of section k that no labelled clause took
Unattached(k) ==
  SectionLinesOf(k) \ ConsumedBy(Labelled(extracted.sections[k].clauses))

\* the maximal runs of consecutive unattached lines of section k, each as the
\* sequence of its stream positions
UnattachedRuns(k) ==
  { [ i \in 1 .. (b - a + 1) |-> a + i - 1 ] : <<a, b>> \in
      { ab \in SectionLinesOf(k) \X SectionLinesOf(k) :
          /\ ab[1] <= ab[2]
          /\ \A n \in ab[1] .. ab[2] : n \in Unattached(k)
          /\ ab[1] - 1 \notin Unattached(k)
          /\ ab[2] + 1 \notin Unattached(k) } }

SyntheticOf(k) == Synthetic(extracted.sections[k].clauses)

IsUnmatchedIssue(issue) == issue.extractionFlags = << "unmatched" >>

\* C16: every maximal run of consecutive section lines that no labelled clause
\* took is one synthetic clause (id __unmatched_N, level 1, synthetic, without
\* parentId) holding all lines of the run in order; every synthetic clause has
\* exactly one issue with flag unmatched, and a document has as many unmatched
\* issues as synthetic clauses.
C16_OneSyntheticClausePerUnmatchedRun ==
  Extracted =>
    /\ \A k \in DOMAIN extracted.sections :
         /\ \A run \in UnattachedRuns(k) :
              Cardinality({ i \in DOMAIN SyntheticOf(k) :
                              SyntheticOf(k)[i].sourceLines = run }) = 1
         /\ \A i \in DOMAIN SyntheticOf(k) :
              LET c == SyntheticOf(k)[i]
              IN  /\ c.sourceLines \in UnattachedRuns(k)
                  /\ c.id = "__unmatched_" \o ToString(i)
                  /\ c.level = 1 /\ c.synthetic /\ c.parentId = Undefined
                  /\ c.sourceLineCount = Len(c.sourceLines)
                  /\ Cardinality({ j \in DOMAIN extracted.issues :
                       /\ IsUnmatchedIssue(extracted.issues[j])
                       /\ extracted.issues[j].originalLabel
                            = << extracted.sections[k].header, "unmatched", i >>
                       /\ extracted.issues[j].text = c.textPreserved }) = 1
    /\ Len(SelectSeq(extracted.issues, IsUnmatchedIssue))
         = Len(FlatMapSections(extracted.sections))

\* two sections with a synthetic clause each, one of them before a labelled clause
C16_Witness ==
  /\ Extracted
  /\ Cardinality({ k \in DOMAIN extracted.sections : SyntheticOf(k) # <<>> }) >= 2
  /\ \E k \in DOMAIN extracted.sections :
       SyntheticOf(k) # <<>> /\ Labelled(extracted.sections[k].clauses) # <<>>

\* the sections whose clauses took line n of the stream
SectionsWithLine(n) ==
  { k \in DOMAIN extracted.sections : n \in ConsumedBy(extracted.sections[k].clauses) }

\* the last boundary before position index, 0 when there is none
BoundaryBefore(boundaries, index) ==
  IF \A k \in DOMAIN boundaries : boundaries[k].index >= index THEN 0
  ELSE CHOOSE k \in DOMAIN boundaries :
         /\ boundaries[k].index < index
         /\ \A other \in DOMAIN boundaries :
              boundaries[other].index < index => boundaries[other].index <= boundaries[k].index

\* C29: when extractSections finds at least one section boundary, every line
\* before the first boundary and every boundary header line belongs to no
\* section: it is part of no clause, counted in no section's
\* coverage.totalLines and raises no issue; every other line before the
\* appendix cutoff belongs to exactly one section, the one opened by the
\* nearest preceding boundary.
C29_LinesOutsideSectionsDropped ==
  Extracted =>
    LET boundaries == findSectionBoundaries(lines)
        cutoff     == findAppendixStartIndex(lines, boundaries)
        last       == IF cutoff = NotFound THEN Len(lines) ELSE cutoff - 1
        headerAt   == { boundaries[k].index : k \in DOMAIN boundaries }
        inside     == { i \in 1 .. last : i \notin headerAt /\ BoundaryBefore(boundaries, i) # 0 }
    IN  boundaries # <<>> =>
          /\ Len(extracted.sections) = Len(boundaries)
          /\ \A i \in DOMAIN lines : i \notin inside => SectionsWithLine(lines[i].n) = {}
          /\ \A i \in inside :
               SectionsWithLine(lines[i].n) = { BoundaryBefore(boundaries, i) }
          /\ \A k \in DOMAIN extracted.sections :
               /\ extracted.sections[k].header = boundaries[k].header
               /\ extracted.sections[k].coverage.totalLines =
                    Cardinality({ i \in inside : BoundaryBefore(boundaries, i) = k })
          /\ \A j \in DOMAIN extracted.issues :
               \E k \in DOMAIN extracted.sections : \E c \in Range(extracted.sections[k].clauses) :
                 /\ c.synthetic
                 /\ extracted.issues[j].text = c.textPreserved
                 /\ Range(c.sourceLines) \subseteq { lines[i].n : i \in inside }

\* a line before the first of two boundaries, and a line in each section
C29_Witness ==
  /\ Extracted
  /\ Len(lines) = 5
  /\ Len(findSectionBoundaries(lines)) = 2
  /\ findSectionBoundaries(lines)[1].index = 2
  /\ findSectionBoundaries(lines)[2].index = 4
  /\ SectionsWithLine(1) = {} /\ SectionsWithLine(2) = {} /\ SectionsWithLine(4) = {}
  /\ SectionsWithLine(3) = { 1 } /\ SectionsWithLine(5) = { 2 }

\* a line in the appendix, a line before the boundary and an unlabelled line
\* of the section that raised an issue
C29_WitnessIssue ==
  /\ Extracted
  /\ Len(findSectionBoundaries(lines)) = 1
  /\ findSectionBoundaries(lines)[1].index = 2
  /\ lines[1].words = << "body" >> /\ lines[3].words = << "body" >>
  /\ Len(extracted.issues) = 1
  /\ SectionsWithLine(3) = { 1 }

(***************************************************************************)
(* Parsing a section laid out over pages                                   *)
(***************************************************************************)
MaxLayoutLines == 3

LayoutWords ==
  { << "4.", "alpha" >>, << "2" >>, << "(a)", "beta" >>, << "(i)" >>,
    << "The", "obli-" >>, << "gations", "apply." >> }

\* the left margin, where the first line of a section stands, and two indent
\* steps to its right
LayoutXs == { 72, 72 + 2 * INDENT_SPACE_STEP }

\* the usual distance of two lines and the distance of two paragraphs
LayoutGaps == { 14, 70 }

RECURSIVE PagedLayout(_, _, _, _)
\* the lines of a section: line i stands on the page of the line before it,
\* gap[i] below it, or at the top of the next page
PagedLayout(texts, x, gap, newPage) ==
  IF texts = <<>> THEN <<>>
  ELSE LET i      == Len(texts)
           before == PagedLayout(SubSeq(texts, 1, i - 1), x, gap, newPage)
           first  == i = 1
           turn   == ~first /\ newPage[i]
       IN  Append(before,
                  [ n |-> i, words |-> texts[i],
                    x |-> IF first THEN 72 ELSE x[i],
                    page |-> IF first THEN 1
                             ELSE IF turn THEN before[i - 1].page + 1
                             ELSE before[i - 1].page,
                    y |-> IF first \/ turn THEN 700 ELSE before[i - 1].y - gap[i] ])

InitLayout ==
  /\ \E n \in 0 .. MaxLayoutLines :
       \E texts \in [ 1 .. n -> LayoutWords ], x \in [ 2 .. n -> LayoutXs ],
          gap \in [ 2 .. n -> LayoutGaps ], newPage \in [ 2 .. n -> BOOLEAN ] :
         sectionLines = PagedLayout(texts, x, gap, newPage)
  /\ ps = NewParser("Objective", sectionLines, "base")
  /\ parsed = NoResult
  /\ store = [ id \in {} |-> NoRecord ] /\ clock = 0 /\ files = {}
  /\ lastSave = <<>> /\ evicted = {} /\ response = NoResult
  /\ baseDocument = <<>> /\ comparedDocument = <<>> /\ comparison = NoResult
  /\ lines = <<>> /\ extracted = NoResult
  /\ pageLines = <<>> /\ footerFiltered = NoResult /\ superscripted = NoResult
  /\ extraction = NoResult

SpecLayout == InitLayout /\ [][NextParse]_vars

\* the text, as one string, contains the target between two of its pieces
ContainsText(pieces, target) ==
  \E i \in DOMAIN pieces : \E j \in i .. Len(pieces) :
    ConcatAll(SubSeq(pieces, i, j)) = target

\* lines p and p + 1 of the section are a body line that breaks the word
\* "obligations" and its continuation, the second under the first on the same
\* page, at the usual distance and without a change of indent, in one clause
BrokenWordAt(clause, p) ==
  /\ p \in DOMAIN sectionLines /\ p + 1 \in DOMAIN sectionLines
  /\ \E k \in 2 .. (Len(clause.sourceLines) - 1) :
       clause.sourceLines[k] = p /\ clause.sourceLines[k + 1] = p + 1
  /\ sectionLines[p].words = << "The", "obli-" >>
  /\ sectionLines[p + 1].words = << "gations", "apply." >>
  /\ sectionLines[p].page = sectionLines[p + 1].page
  /\ sectionLines[p].y - sectionLines[p + 1].y = 14
  /\ sectionLines[p].x = sectionLines[p + 1].x

\* C15: when a body line of a clause ends with a hyphen-like character and the
\* next line is joined with a space separator (same page, no paragraph gap, no
\* indent change), the lines are concatenated with no inserted space, so that a
\* word broken as "obli-" / "gations apply." appears in textPreserved as the
\* substring "obligations apply.".
C15_BrokenWordRejoined ==
  Parsed =>
    \A c \in Range(parsed.clauses) : \A p \in DOMAIN sectionLines :
      BrokenWordAt(c, p) => ContainsText(c.textPreserved, "obligations apply.")

\* what the join leaves in the text: no space is inserted and the hyphen stays
C15_HyphenKeptNoSpace ==
  Parsed =>
    \A c \in Range(parsed.clauses) : \A p \in DOMAIN sectionLines :
      BrokenWordAt(c, p) =>
        /\ ContainsText(c.textPreserved, "obli-gations apply.")
        /\ ~ContainsText(c.textPreserved, "obli- gations")

C15_WitnessBrokenWord ==
  /\ Parsed
  /\ \E c \in Range(parsed.clauses) : \E p \in DOMAIN sectionLines : BrokenWordAt(c, p)

PagesNonDecreasing(lns) ==
  \A i \in DOMAIN lns : \A j \in i .. Len(lns) : lns[i].page <= lns[j].page

\* C17: for a stream of lines whose page numbers do not decrease, every clause
\* of the section has pageStart <= pageEnd, and along the clause list both
\* pageStart and pageEnd do not decrease; a later clause never starts on an
\* earlier page than a clause before it ends.
C17_ClausePagesOrdered ==
  (Parsed /\ PagesNonDecreasing(sectionLines)) =>
    /\ \A c \in Range(parsed.clauses) : c.pageStart <= c.pageEnd
    /\ \A i \in DOMAIN parsed.clauses : \A j \in (i + 1) .. Len(parsed.clauses) :
         /\ parsed.clauses[i].pageStart <= parsed.clauses[j].pageStart
         /\ parsed.clauses[i].pageEnd <= parsed.clauses[j].pageEnd
         /\ parsed.clauses[i].pageEnd <= parsed.clauses[j].pageStart

\* a clause that runs over a page break, followed by a clause on a later page
C17_Witness ==
  /\ Parsed
  /\ \E i \in DOMAIN parsed.clauses :
       /\ parsed.clauses[i].pageStart < parsed.clauses[i].pageEnd
       /\ i < Len(parsed.clauses)
       /\ parsed.clauses[i].pageEnd < parsed.clauses[i + 1].pageStart

(***************************************************************************)
(* Appending one continuation line to a clause                             *)
(***************************************************************************)
\* the last line of the clause, the line before it and the line appended
SeparatorWords ==
  { << "4." >>, << "(a)" >>, << "4.", "alpha" >>, << "(a)", "beta" >>,
    << "The", "obli-" >>, << "plain", "text" >> }

\* y distances between consecutive lines, x of the appended line, x of the clause
SeparatorGaps  == { 0 - 14, 10, 15, 16, 40, 70 }
SeparatorXs    == { 61, 72, 83, 84, 400 }
SeparatorBaseXs == { 72, 80, 100 }

InitSeparator ==
  /\ \E words \in SeparatorWords, gapBefore \in { 10, 70 }, gap \in SeparatorGaps,
        x \in SeparatorXs, turn \in BOOLEAN :
       sectionLines =
         << [ n |-> 1, words |-> << "plain", "text" >>, page |-> 1, x |-> 72, y |-> 700 ],
            [ n |-> 2, words |-> words, page |-> 1, x |-> 72, y |-> 700 - gapBefore ],
            [ n |-> 3, words |-> << "gations", "apply." >>,
              page |-> IF turn THEN 2 ELSE 1, x |-> x,
              y |-> IF turn THEN 700 ELSE 700 - gapBefore - gap ] >>
  /\ \E baseX \in SeparatorBaseXs :
       ps = [ clause |-> NewClause("4", "4", Null, 1, LineText(sectionLines[2].words),
                                   sectionLines[2], FALSE),
              clauseBaseX |-> baseX,
              pageSpacingMap |-> buildPageSpacingMap(sectionLines) ]
  /\ parsed = NoResult
  /\ store = [ id \in {} |-> NoRecord ] /\ clock = 0 /\ files = {}
  /\ lastSave = <<>> /\ evicted = {} /\ response = NoResult
  /\ baseDocument = <<>> /\ comparedDocument = <<>> /\ comparison = NoResult
  /\ lines = <<>> /\ extracted = NoResult
  /\ pageLines = <<>> /\ footerFiltered = NoResult /\ superscripted = NoResult
  /\ extraction = NoResult

\* appendLineWithStructure(clause, previousLine, nextLine, clauseBaseX, pageSpacingMap)
AppendContinuationLine ==
  /\ parsed = NoResult
  /\ parsed' =
       [ separator |-> chooseContinuationSeparator(
                         sectionLines[2], sectionLines[3], ps.clauseBaseX, ps.pageSpacingMap),
         clause |-> appendLineWithStructure(
                      ps.clause, sectionLines[2], sectionLines[3],
                      ps.clauseBaseX, ps.pageSpacingMap) ]
  /\ UNCHANGED <<sectionLines, ps>>
  /\ UNCHANGED <<storeVars, compareVars, extractVars, lineVars>>

NextSeparator == AppendContinuationLine

SpecSeparator == InitSeparator /\ [][NextSeparator]_vars

\* the gaps between consecutive lines of a page that count as line gaps
LineGapsOn(page) ==
  { i \in 2 .. Len(sectionLines) :
      /\ sectionLines[i - 1].page = page /\ sectionLines[i].page = page
      /\ sectionLines[i - 1].y - sectionLines[i].y > 0
      /\ sectionLines[i - 1].y - sectionLines[i].y <= 60 }

\* a hundred times the median line gap of the page (of one or two gaps), 1100
\* when the page has none
MedianGap100(page) ==
  LET at == LineGapsOn(page)
      total == IF at = {} THEN 0
               ELSE IF Cardinality(at) = 1
               THEN LET i == CHOOSE i \in at : TRUE
                    IN  2 * (sectionLines[i - 1].y - sectionLines[i].y)
               ELSE (sectionLines[1].y - sectionLines[2].y)
                      + (sectionLines[2].y - sectionLines[3].y)
  IN  IF at = {} THEN 1100 ELSE 50 * total

\* the separator by the six rules, the first that applies
SeparatorByRules(previous, next) ==
  IF previous.page # next.page THEN "\n"
  ELSE IF Len(previous.words) = 1 /\ previous.words[1] \in { "4.", "(a)" } THEN "\n"
  ELSE IF Len(previous.words) > 1 /\ previous.words[1] \in { "4.", "(a)" } THEN " "
  ELSE IF 10000 * (previous.y - next.y) > 155 * MedianGap100(next.page) THEN "\n"
  ELSE IF next.x - previous.x >= 12 \/ previous.x - next.x >= 12 THEN "\n"
  ELSE " "

\* min(24, max(0, round((x - baseX) / 8)))
IndentByRule(x, baseX) ==
  LET rounded == (x - baseX + 4) \div 8
  IN  IF rounded < 0 THEN 0 ELSE IF rounded > 24 THEN 24 ELSE rounded

\* C22: chooseContinuationSeparator decides by the first rule that applies:
\* (1) different pages: newline; (2) previous text a bare root or marker label:
\* newline; (3) previous text a label followed by body: space; (4) previous.y -
\* next.y > 1.55 * spacing: newline, spacing being the median line gap of
\* next's page and 11 when none is known; (5) |next.x - previous.x| >= 12:
\* newline; (6) otherwise space.  On a newline the appended line is prefixed by
\* min(24, max(0, round((next.x - baseX)/8))) spaces.
C22_SeparatorByFirstRule ==
  parsed # NoResult /\ DOMAIN parsed = { "separator", "clause" } =>
    LET previous == sectionLines[2]
        next     == sectionLines[3]
        before   == ps.clause.textPreserved
    IN  /\ parsed.separator = SeparatorByRules(previous, next)
        /\ parsed.separator = "\n" =>
             parsed.clause.textPreserved =
               before \o << "\n", Spaces(IndentByRule(next.x, ps.clauseBaseX)) >>
                      \o LineText(next.words)
        /\ parsed.separator = " " =>
             parsed.clause.textPreserved \in
               { before \o << " " >> \o LineText(next.words),
                 before \o LineText(next.words) }

\* a plain line followed on the same page, 16 below with line gaps of 10 and
\* 16 (median 13: 16 <= 20.15), by a line 12 to the right: a newline by rule
\* (5), and the indent of 84 - 80 = 4 rounds to one space
C22_Witness ==
  /\ parsed # NoResult /\ DOMAIN parsed = { "separator", "clause" }
  /\ sectionLines[2].words = << "plain", "text" >>
  /\ sectionLines[3].page = 1
  /\ sectionLines[1].y - sectionLines[2].y = 10
  /\ sectionLines[2].y - sectionLines[3].y = 16
  /\ sectionLines[3].x = 84 /\ ps.clauseBaseX = 80
  /\ parsed.separator = "\n"
  /\ parsed.clause.textPreserved =
       << "plain", " ", "text", "\n", " ", "gations", " ", "apply." >>

(***************************************************************************)
(* Joining the fragments of a line  (joinLineFragments)                    *)
(*                                                                         *)
(* A fragment is [text, x, y, width, height]; lengths are in tenths of a   *)
(* PDF unit, so that the thresholds 1.2 and 3.4 are the integers 12 and 34.*)
(***************************************************************************)
X_GAP_SPACE_THRESHOLD_TENTHS == 12
GAP_PER_SPACE_TENTHS == 34

\* first and last character of the fragment texts the model draws from
FirstChar(token) ==
  CASE token = "Total" -> "T"
    [] token = "net)"  -> "n"
    [] OTHER           -> token

LastChar(token) ==
  CASE token = "Total" -> "l"
    [] token = "net)"  -> ")"
    [] OTHER           -> token

\* /[A-Za-z0-9]/ on the characters above
IsWordChar(char) == char \in { "T", "l", "n" }

\* shouldAttachWithoutSpace(current, token): current is not empty and ends
\* with the last character of the token joined before
shouldAttachWithoutSpace(previousToken, token) ==
  \/ FirstChar(token) \in { ",", ".", ";", ":", "!", "?", ")", "]", "}", "%" }
  \/ LastChar(previousToken) \in { "-", "/" }
  \/ FirstChar(token) \in { "-", "/" }
  \/ LastChar(previousToken) \in { "(", "[", "{" }

\* Math.max(1, Math.round(gap / 3.4)) for a gap above the threshold
ExtraSpaces(gap) ==
  Max(1, (2 * gap + GAP_PER_SPACE_TENTHS) \div (2 * GAP_PER_SPACE_TENTHS))

\* as SeparatorSpaces, two word characters always getting one space
SeparatorSpacesWordsFirst(previousToken, token, gap) ==
  IF shouldAttachWithoutSpace(previousToken, token) THEN 0
  ELSE IF IsWordChar(LastChar(previousToken)) /\ IsWordChar(FirstChar(token)) THEN 1
  ELSE IF gap > X_GAP_SPACE_THRESHOLD_TENTHS THEN ExtraSpaces(gap)
  ELSE 0

\* the number of spaces the loop body puts before the token
SeparatorSpaces(previousToken, token, gap) ==
  IF shouldAttachWithoutSpace(previousToken, token) THEN 0
  ELSE IF gap > X_GAP_SPACE_THRESHOLD_TENTHS THEN ExtraSpaces(gap)
  ELSE IF IsWordChar(LastChar(previousToken)) /\ IsWordChar(FirstChar(token)) THEN 1
  ELSE 0

RECURSIVE InsertByX(_, _)
InsertByX(sorted, fragment) ==
  IF sorted = <<>> THEN << fragment >>
  ELSE IF fragment.x < Head(sorted).x THEN << fragment >> \o sorted
  ELSE << Head(sorted) >> \o InsertByX(Tail(sorted), fragment)

RECURSIVE SortedByX(_)
\* fragments.toSorted((a, b) => a.x - b.x), a stable sort
SortedByX(fragments) ==
  IF fragments = <<>> THEN <<>>
  ELSE InsertByX(SortedByX(SubSeq(fragments, 1, Len(fragments) - 1)),
                 fragments[Len(fragments)])

RECURSIVE JoinFrom(_, _, _)
\* the loop of joinLineFragments from fragment i on; joined.inserted lists the
\* number of spaces put before each token after the first
JoinFrom(sorted, i, joined) ==
  IF i > Len(sorted) THEN joined
  ELSE LET fragment == sorted[i] IN
       IF fragment.text = "" THEN JoinFrom(sorted, i + 1, joined)
       ELSE IF joined.text = ""
       THEN JoinFrom(sorted, i + 1,
              [ joined EXCEPT !.text = fragment.text, !.x = fragment.x,
                              !.previousToken = fragment.text,
                              !.previousRightEdge = fragment.x + fragment.width,
                              !.height = Max(joined.height, fragment.height) ])
       ELSE LET spaces == SeparatorSpaces(joined.previousToken, fragment.text,
                                          fragment.x - joined.previousRightEdge)
            IN  JoinFrom(sorted, i + 1,
                  [ joined EXCEPT !.text = joined.text \o Spaces(spaces) \o fragment.text,
                                  !.inserted = Append(joined.inserted, spaces),
                                  !.previousToken = fragment.text,
                                  !.previousRightEdge = fragment.x + fragment.width,
                                  !.height = Max(joined.height, fragment.height) ])

joinLineFragments(fragments) ==
  LET sorted == SortedByX(fragments)
      joined == JoinFrom(sorted, 1,
                  [ text |-> "", x |-> IF sorted = <<>> THEN 0 ELSE sorted[1].x,
                    previousToken |-> "", previousRightEdge |-> 0, height |-> 0,
                    inserted |-> <<>> ])
  IN  [ text |-> joined.text, x |-> joined.x,
        y |-> IF sorted = <<>> THEN 0 ELSE sorted[1].y,
        height |-> joined.height, inserted |-> joined.inserted ]

\* ---- the fragments of one line bucket ----
MaxFragments == 3

FragmentTexts == { "Total", ",", "-", "(", "net)" }
\* distances from the right edge of a fragment to the next: 0, 1.2, 1.3, 5.1, 10
FragmentGaps  == { 0, 12, 13, 51, 100 }

RECURSIVE LaidOut(_, _)
\* fragments 100 wide from x = 720 on, each at its gap from the one before
LaidOut(texts, gaps) ==
  IF texts = <<>> THEN <<>>
  ELSE LET n      == Len(texts)
           before == LaidOut(SubSeq(texts, 1, n - 1), gaps)
       IN  Append(before,
                  [ text |-> texts[n], y |-> 7000, width |-> 100, height |-> 100 + n,
                    x |-> IF n = 1 THEN 720
                          ELSE before[n - 1].x + before[n - 1].width + gaps[n] ])

Reversed(seq) == [ i \in DOMAIN seq |-> seq[Len(seq) + 1 - i] ]

InitJoin ==
  /\ \E n \in 1 .. MaxFragments :
       \E texts \in [ 1 .. n -> FragmentTexts ], gaps \in [ 2 .. n -> FragmentGaps ],
          reversed \in BOOLEAN :
         lines = IF reversed THEN Reversed(LaidOut(texts, gaps)) ELSE LaidOut(texts, gaps)
  /\ extracted = NoResult
  /\ store = [ id \in {} |-> NoRecord ] /\ clock = 0 /\ files = {}
  /\ lastSave = <<>> /\ evicted = {} /\ response = NoResult
  /\ baseDocument = <<>> /\ comparedDocument = <<>> /\ comparison = NoResult
  /\ sectionLines = <<>> /\ ps = NoResult /\ parsed = NoResult
  /\ pageLines = <<>> /\ footerFiltered = NoResult /\ superscripted = NoResult
  /\ extraction = NoResult

\* const { text, x, y, height } = joinLineFragments(bucketFragments)
JoinBucket ==
  /\ extracted = NoResult
  /\ extracted' = joinLineFragments(lines)
  /\ UNCHANGED lines
  /\ UNCHANGED <<storeVars, compareVars, parseVars, lineVars>>

NextJoin == JoinBucket

SpecJoin == InitJoin /\ [][NextJoin]_vars

Joined == extracted # NoResult

\* the fragments from left to right, and the gap before the one at position j + 1
LeftToRight == IF lines # <<>> /\ lines[1].x > lines[Len(lines)].x THEN Reversed(lines) ELSE lines

GapBefore(j) == LeftToRight[j + 1].x - (LeftToRight[j].x + LeftToRight[j].width)

AttachRule(j) ==
  LET previous == LeftToRight[j].text
      next     == LeftToRight[j + 1].text
  IN  \/ next \in { ",", "-" }
      \/ previous \in { "-", "(" }

BothWordCharacters(j) ==
  LeftToRight[j].text = "Total" /\ LeftToRight[j + 1].text \in { "Total", "net)" }

\* max(1, round(gap / 3.4)) for the gaps drawn
SpacesForGap(gap) ==
  CASE gap = 13  -> 1
    [] gap = 51  -> 2
    [] gap = 100 -> 3
    [] OTHER     -> 0

\* C26 (as claimed): when no attach rule applies the separator is exactly one
\* space when gap > 1.2 and both adjoining characters are word characters, and
\* max(1, round(gap/3.4)) spaces for the other gaps above 1.2; when an attach
\* rule applies nothing is inserted whatever the gap.
C26_OneSpaceBetweenWords ==
  Joined =>
    \A j \in DOMAIN extracted.inserted :
      /\ AttachRule(j) => extracted.inserted[j] = 0
      /\ (~AttachRule(j) /\ GapBefore(j) > 12 /\ BothWordCharacters(j))
           => extracted.inserted[j] = 1
      /\ (~AttachRule(j) /\ GapBefore(j) > 12 /\ ~BothWordCharacters(j))
           => extracted.inserted[j] = SpacesForGap(GapBefore(j))

\* C26: when an attach rule applies nothing is inserted whatever the gap;
\* when none applies the separator is max(1, round(gap/3.4)) spaces for every
\* gap above 1.2, whatever the adjoining characters, exactly one space for a
\* gap of at most 1.2 between two word characters, and nothing otherwise.
C26_GapFirstThenWordCharacters ==
  Joined =>
    \A j \in DOMAIN extracted.inserted :
      /\ AttachRule(j) => extracted.inserted[j] = 0
      /\ (~AttachRule(j) /\ GapBefore(j) > 12)
           => extracted.inserted[j] = SpacesForGap(GapBefore(j))
      /\ (~AttachRule(j) /\ GapBefore(j) <= 12 /\ BothWordCharacters(j))
           => extracted.inserted[j] = 1
      /\ (~AttachRule(j) /\ GapBefore(j) <= 12 /\ ~BothWordCharacters(j))
           => extracted.inserted[j] = 0

\* two words 5.1 apart get two spaces, a word touching the next gets one, and
\* a comma is attached whatever its distance
C26_Witness ==
  /\ Joined
  /\ \E texts \in { << "Total", "Total", "Total" >> } :
       /\ [ j \in DOMAIN lines |-> lines[j].text ] = texts
       /\ lines[1].x < lines[2].x
       /\ GapBefore(1) = 51 /\ GapBefore(2) = 0
  /\ extracted.inserted = << 2, 1 >>
  /\ extracted.text = "Total  Total Total"

\* a comma 10 to the right of a word is attached to it
C26_WitnessAttach ==
  /\ Joined
  /\ Len(lines) = 2 /\ lines[1].text = "Total" /\ lines[2].text = ","
  /\ GapBefore(1) = 100
  /\ extracted.text = "Total,"

(***************************************************************************)
(* Footer filter  (src/src/lib/pdf/extractParagraphs.ts)                   *)
(*                                                                         *)
(* Lines carry pageHeight; texts are word sequences and the text tests are *)
(* given by what they match among the words the model draws from.          *)
(***************************************************************************)
FOOTER_REGION_RATIO_PERCENT == 14
MAX_REPEAT_FOOTER_LENGTH == 140
MIN_REPEAT_SIGNATURE_LENGTH == 12
MIN_REPEAT_SIGNATURE_TOKENS == 2

\* one word of normalizeFooterText: NFKC, dashes to "-", curly quotes to straight
\* ("[en dash]" stands for the character U+2013)
NormalizeFooterWord(word) ==
  CASE word = "Foundation[en dash]" -> "Foundation-"
    [] OTHER                -> word

normalizeFooterText(words) == [ i \in DOMAIN words |-> NormalizeFooterWord(words[i]) ]

\* /^\d+$/ on a word
IsDigits(word) == word \in { "3", "4", "12", "42" }

\* .toLowerCase() of a word
LowerWord(word) ==
  CASE word = "IFRS"       -> "ifrs"
    [] word = "Foundation" -> "foundation"
    [] word = "Foundation-" -> "foundation-"
    [] word = "Page"       -> "page"
    [] word = "Draft"      -> "draft"
    [] word = "Risk"       -> "risk"
    [] word = "Issued"     -> "issued"
    [] word = "Objective"  -> "objective"
    [] OTHER               -> word

\* /^(?:page|p\.?)\s*\d+(?:\s*(?:of|\/)\s*\d+)?$/i or /^\d+\s*(?:of|\/)\s*\d+$/i
IsPageToken(words) ==
  \/ /\ Len(words) \in { 2, 4 }
     /\ LowerWord(words[1]) \in { "page", "p", "p." }
     /\ IsDigits(words[2])
     /\ Len(words) = 4 => (LowerWord(words[3]) \in { "of", "/" } /\ IsDigits(words[4]))
  \/ /\ Len(words) = 3
     /\ IsDigits(words[1]) /\ LowerWord(words[2]) \in { "of", "/" } /\ IsDigits(words[3])

\* the copyright / issuer phrases, found anywhere in the text
ContainsFooterPhrase(words) ==
  \/ \E i \in DOMAIN words :
       LowerWord(words[i]) \in { "copyright", "issb", "aasb", "issued", "reissued" }
  \/ \E i \in 1 .. (Len(words) - 1) :
       << LowerWord(words[i]), LowerWord(words[i + 1]) >>
         \in { << "ifrs", "foundation" >>, << "ifrs", "foundation-" >>, << "ifrs", "s2" >>,
               << "exposure", "draft" >>, << "climate-related", "disclosures" >>,
               << "aasb", "s2" >> }

likelyFooterLine(words) ==
  LET normalized == normalizeFooterText(words)
  IN  /\ normalized # <<>>
      /\ \/ Len(normalized) = 1 /\ IsDigits(normalized[1])
         \/ IsPageToken(normalized)
         \/ ContainsFooterPhrase(normalized)

looksLikeClauseLine(words) == words # <<>> /\ isClauseStartLine(words)

RECURSIVE StripPageTokens(_)
\* the three replace(...) of page tokens in buildFooterSignature
StripPageTokens(words) ==
  IF words = <<>> THEN <<>>
  ELSE IF Len(words) >= 4 /\ IsPageToken(SubSeq(words, 1, 4))
  THEN StripPageTokens(SubSeq(words, 5, Len(words)))
  ELSE IF Len(words) >= 3 /\ IsPageToken(SubSeq(words, 1, 3))
  THEN StripPageTokens(SubSeq(words, 4, Len(words)))
  ELSE IF Len(words) >= 2 /\ IsPageToken(SubSeq(words, 1, 2))
  THEN StripPageTokens(SubSeq(words, 3, Len(words)))
  ELSE << Head(words) >> \o StripPageTokens(Tail(words))

\* .replace(/[^\p{L}\p{N}\s]/gu, " ") on a lower-case word; "" when nothing is left
StripPunctuation(word) ==
  CASE word = "foundation-" -> "foundation"
    [] word = "1."          -> "1"
    [] word = "(a)"         -> "a"
    [] word = "-"           -> ""
    [] OTHER                -> word

\* the signature, as its tokens
buildFooterSignature(words) ==
  LET lowered  == [ i \in DOMAIN words |-> LowerWord(NormalizeFooterWord(words[i])) ]
      stripped == StripPageTokens(lowered)
  IN  SelectSeq([ i \in DOMAIN stripped |-> StripPunctuation(stripped[i]) ],
                LAMBDA w : w # "")

isRepeatFooterCandidate(signature) ==
  /\ NormalizedLength(signature) >= MIN_REPEAT_SIGNATURE_LENGTH
  /\ Len(signature) >= MIN_REPEAT_SIGNATURE_TOKENS

InFooterRegionStrict(line) == 100 * line.y < FOOTER_REGION_RATIO_PERCENT * line.pageHeight

\* line.y <= line.pageHeight * FOOTER_REGION_RATIO
InFooterRegion(line) == 100 * line.y <= FOOTER_REGION_RATIO_PERCENT * line.pageHeight

\* pass 1: whether the line adds its page to the set of its signature
CountsAsRepeat(line) ==
  LET normalized == normalizeFooterText(line.words)
  IN  /\ InFooterRegion(line)
      /\ normalized # <<>>
      /\ NormalizedLength(normalized) <= MAX_REPEAT_FOOTER_LENGTH
      /\ ~looksLikeClauseLine(normalized)
      /\ isRepeatFooterCandidate(buildFooterSignature(normalized))

MIN_REPEAT_PAGES == 2

repeatedFooterSignatureSetOnePage(lns) ==
  { buildFooterSignature(line.words) : line \in { l \in Range(lns) : CountsAsRepeat(l) } }

\* the signatures that pass 1 saw on at least two pages
repeatedFooterSignatureSet(lns) ==
  LET counted == { l \in Range(lns) : CountsAsRepeat(l) }
      PagesOf(signature) ==
        { l.page : l \in { c \in counted : buildFooterSignature(c.words) = signature } }
  IN  { signature \in { buildFooterSignature(l.words) : l \in counted } :
          Cardinality(PagesOf(signature)) >= MIN_REPEAT_PAGES }

\* pass 2: the predicate of lines.filter
KeepsLine(line, repeated) ==
  LET normalized == normalizeFooterText(line.words)
      signature  == buildFooterSignature(normalized)
  IN  IF ~InFooterRegion(line) THEN TRUE
      ELSE IF normalized = <<>> THEN TRUE
      ELSE IF HeaderLookup(normalized) # Null THEN TRUE
      ELSE IF likelyFooterLine(normalized) THEN FALSE
      ELSE IF looksLikeClauseLine(normalized) THEN TRUE
      ELSE IF isRepeatFooterCandidate(signature) /\ signature \in repeated THEN FALSE
      ELSE TRUE

filterFooterLines(lns) ==
  LET repeated == repeatedFooterSignatureSet(lns)
  IN  SelectSeq(lns, LAMBDA line : KeepsLine(line, repeated))

(***************************************************************************)
(* Filtering the footers of a line stream                                  *)
(***************************************************************************)
MaxFooterLines == 3

FooterTexts ==
  { << "12" >>,
    << "IFRS", "Foundation", "Page", "3", "of", "42" >>,
    << "IFRS", "Foundation[en dash]", "Page", "4", "of", "42" >>,
    << "Draft", "for", "consultation" >>,
    << "Risk", "management" >>,
    << "1.", "Issued", "capital" >>,
    << "(a)", "beta" >>,
    << "body" >> }

\* where a line lies: page 1 above the band, page 1 in the band, page 2 above
\* the band, page 2 in the band; a stream runs through them in this order
Slots(n) ==
  { slot \in [ 1 .. n -> 1 .. 4 ] : \A i \in 1 .. n : \A j \in i .. n : slot[i] <= slot[j] }

\* the first line of the stream, when in the band, lies exactly on its edge
FooterLayout(texts, slot) ==
  [ i \in DOMAIN texts |->
      [ n |-> i, words |-> texts[i],
        page |-> IF slot[i] <= 2 THEN 1 ELSE 2,
        x |-> 72,
        y |-> IF slot[i] \in { 2, 4 } THEN 112 - 10 * (i - 1) ELSE 700 - 14 * i,
        pageHeight |-> 800 ] ]

InitFooter ==
  /\ \E texts \in SeqsUpTo(FooterTexts, MaxFooterLines) :
       \E slot \in Slots(Len(texts)) : pageLines = FooterLayout(texts, slot)
  /\ footerFiltered = NoResult
  /\ superscripted = NoResult /\ extraction = NoResult
  /\ store = [ id \in {} |-> NoRecord ] /\ clock = 0 /\ files = {}
  /\ lastSave = <<>> /\ evicted = {} /\ response = NoResult
  /\ baseDocument = <<>> /\ comparedDocument = <<>> /\ comparison = NoResult
  /\ sectionLines = <<>> /\ ps = NoResult /\ parsed = NoResult
  /\ lines = <<>> /\ extracted = NoResult

FilterFooterLines ==
  /\ footerFiltered = NoResult
  /\ footerFiltered' = [ lines |-> filterFooterLines(pageLines) ]
  /\ UNCHANGED <<pageLines, superscripted, extraction>>
  /\ UNCHANGED <<storeVars, compareVars, parseVars, extractVars>>

NextFooter == FilterFooterLines

SpecFooter == InitFooter /\ [][NextFooter]_vars

Filtered == footerFiltered # NoResult

\* the line was removed by the filter
Removed(line) == line \notin Range(footerFiltered.lines)

\* a known footer phrase: a bare page number, a page-of-N form or one of the
\* copyright / issuer phrases
KnownFooterPhrase(line) == likelyFooterLine(line.words)

\* a line of the footer band that may count as a repeat: at most 140
\* characters, not a clause start, signature of at least 12 characters and 2 tokens
RepeatCandidate(line) == CountsAsRepeat(line)

\* the signature of the line occurs among the repeat candidates of at least
\* two distinct pages
SignatureRepeats(line) ==
  \E a, b \in Range(pageLines) :
    /\ RepeatCandidate(a) /\ RepeatCandidate(b)
    /\ a.page # b.page
    /\ buildFooterSignature(a.words) = buildFooterSignature(line.words)
    /\ buildFooterSignature(b.words) = buildFooterSignature(line.words)

IsCanonicalHeader(line) == HeaderLookup(line.words) # Null

\* y <= 0.14 * pageHeight
InBand(line) == 100 * line.y <= FOOTER_REGION_RATIO_PERCENT * line.pageHeight

\* C12: filterFooterLines removes a line that is not a canonical section header
\* if and only if the line lies in the footer band (y <= 0.14 * pageHeight) and
\* is a known footer phrase or has a signature that repeats in the band on at
\* least 2 distinct pages; every line above the band is kept, every canonical
\* section header is kept, and the kept lines keep their relative order.
C12_FooterRemovedIffBandAndPhraseOrRepeat ==
  Filtered =>
    /\ \A line \in Range(pageLines) :
         /\ ~IsCanonicalHeader(line) =>
              ( Removed(line) <=>
                  ( /\ InBand(line)
                    /\ KnownFooterPhrase(line) \/ SignatureRepeats(line) ) )
         /\ ~InBand(line) => ~Removed(line)
         /\ IsCanonicalHeader(line) => ~Removed(line)
    /\ footerFiltered.lines = SelectSeq(pageLines, LAMBDA line : ~Removed(line))

\* a line on the edge of the band whose signature repeats on the other page is
\* removed, and a line above the band is kept
C12_Witness ==
  /\ Filtered
  /\ \E line \in Range(pageLines) :
       /\ Removed(line) /\ ~KnownFooterPhrase(line) /\ SignatureRepeats(line)
       /\ 100 * line.y = FOOTER_REGION_RATIO_PERCENT * line.pageHeight
  /\ \E line \in Range(pageLines) : ~InBand(line) /\ ~Removed(line)

\* the text of the line occurs on a page other than its own
OnAnotherPage(line) ==
  \E other \in Range(pageLines) : other.words = line.words /\ other.page # line.page

SUPERSCRIPT_HEIGHT_RATIO_PERCENT == 82
SUPERSCRIPT_MAX_Y_DELTA == 9
SUPERSCRIPT_MAX_LENGTH == 2
X_BIAS_DIVISOR == 140

\* value.replace(/\s+/g, ""), as its characters
RECURSIVE CollapsedChars(_)
CollapsedChars(words) ==
  IF words = <<>> THEN <<>> ELSE << Head(words) >> \o CollapsedChars(Tail(words))

\* SUPERSCRIPT_CHAR_MAP[char], Null when the character has no mapping
\* ("[sup c]" stands for the Unicode superscript of c)
SuperscriptCharOf(char) ==
  CASE char = "1" -> "[sup 1]"
    [] char = "2" -> "[sup 2]"
    [] char = ")" -> "[sup )]"
    [] char = "n" -> "[sup n]"
    [] OTHER      -> Null

\* the words of a superscript text are single characters
toSuperscript(words) ==
  LET collapsed == CollapsedChars(words)
  IN  IF collapsed = <<>> THEN ""
      ELSE IF \E i \in DOMAIN collapsed : SuperscriptCharOf(collapsed[i]) = Null
      THEN "^" \o ConcatAll(collapsed)
      ELSE ConcatAll([ i \in DOMAIN collapsed |-> SuperscriptCharOf(collapsed[i]) ])

\* /^[0-9()+\-=\sni]+$/i on a word
IsSuperscriptChars(word) == word \in { "1", "2", ")", "n", "N" }

\* pageMedianHeight2 is twice the median height of the page
isSuperscriptCandidate(line, pageMedianHeight2) ==
  LET candidate == CollapsedChars(line.words)
  IN  /\ candidate # <<>>
      /\ Len(ConcatAll(candidate)) <= SUPERSCRIPT_MAX_LENGTH
      /\ \A i \in DOMAIN candidate : IsSuperscriptChars(candidate[i])
      /\ pageMedianHeight2 > 0 /\ line.height > 0
      /\ 200 * line.height < SUPERSCRIPT_HEIGHT_RATIO_PERCENT * pageMedianHeight2

\* twice pageMedianHeights.get(page) ?? 0
pageMedianHeight2(lns, page) ==
  LET onPage  == SelectSeq(lns, LAMBDA l : l.page = page /\ l.height > 0)
  IN  median2([ i \in DOMAIN onPage |-> onPage[i].height ])

\* X_BIAS_DIVISOR times yDelta + xBias
Score(line, neighbor) ==
  X_BIAS_DIVISOR * Abs(neighbor.y - line.y) + Abs(line.x - neighbor.x)

\* the test of one neighbour in the inner loop
NeighborEligible(mutable, skipIndices, index, neighborIndex) ==
  /\ neighborIndex \in DOMAIN mutable
  /\ mutable[neighborIndex].page = mutable[index].page
  /\ neighborIndex \notin skipIndices
  /\ ~isSuperscriptCandidate(mutable[neighborIndex],
                             pageMedianHeight2(mutable, mutable[index].page))
  /\ Abs(mutable[neighborIndex].y - mutable[index].y) <= SUPERSCRIPT_MAX_Y_DELTA

RECURSIVE BestNeighbor(_, _, _, _, _)
\* the inner loop over [index - 2, index - 1, index + 1, index + 2]: score < bestScore
BestNeighbor(mutable, skipIndices, index, neighbors, bestIndex) ==
  IF neighbors = <<>> THEN bestIndex
  ELSE LET neighborIndex == Head(neighbors)
           better ==
             /\ NeighborEligible(mutable, skipIndices, index, neighborIndex)
             /\ \/ bestIndex = NotFound
                \/ Score(mutable[index], mutable[neighborIndex])
                     < Score(mutable[index], mutable[bestIndex])
       IN  BestNeighbor(mutable, skipIndices, index, Tail(neighbors),
                        IF better THEN neighborIndex ELSE bestIndex)

\* `${text}${toSuperscript(candidate.text)}`: no space is put between them
AppendSuperscript(words, superscript) ==
  IF words = <<>> THEN << superscript >>
  ELSE [ words EXCEPT ![Len(words)] = words[Len(words)] \o superscript ]

\* one pass of the outer loop; attached records the bestIndex of every index
AttachStep(st, index) ==
  LET line == st.mutable[index]
      best == BestNeighbor(st.mutable, st.skipIndices, index,
                           << index - 2, index - 1, index + 1, index + 2 >>, NotFound)
  IN  IF ~isSuperscriptCandidate(line, pageMedianHeight2(st.mutable, line.page))
      THEN st
      ELSE IF best = NotFound THEN st
      ELSE [ mutable     |-> [ st.mutable EXCEPT ![best].words =
                                 AppendSuperscript(st.mutable[best].words,
                                                   toSuperscript(line.words)) ],
             skipIndices |-> st.skipIndices \cup { index },
             attached    |-> [ st.attached EXCEPT ![index] = best ] ]

RECURSIVE AttachLoop(_, _)
AttachLoop(st, index) ==
  IF index > Len(st.mutable) THEN st ELSE AttachLoop(AttachStep(st, index), index + 1)

attachSuperscripts(lns) ==
  LET done == AttachLoop([ mutable |-> lns, skipIndices |-> {},
                           attached |-> [ i \in DOMAIN lns |-> NotFound ] ], 1)
      kept == AscendingSeq(DOMAIN lns \ done.skipIndices)
  IN  [ lines    |-> [ i \in DOMAIN kept |-> done.mutable[kept[i]] ],
        attached |-> done.attached ]

MaxSuperLines == 3

\* a body line, a raised figure, a raised letter without a superscript form,
\* and a figure of full height
SuperKinds ==
  { [ words |-> << "mc" >>, height |-> 10 ],
    [ words |-> << "2" >>,  height |-> 6 ],
    [ words |-> << "N" >>,  height |-> 6 ],
    [ words |-> << "1", ")" >>, height |-> 10 ] }

SuperXs == { 60, 200 }
SuperYs == { 500, 501, 510 }

InitSuperscripts ==
  /\ \E n \in 0 .. MaxSuperLines :
       \E kind \in [ 1 .. n -> SuperKinds ], x \in [ 1 .. n -> SuperXs ],
          y \in [ 1 .. n -> SuperYs ],
          page \in { p \in [ 1 .. n -> 1 .. 2 ] :
                       \A i \in 1 .. n : \A j \in i .. n : p[i] <= p[j] } :
         pageLines = [ i \in 1 .. n |->
                         [ n |-> i, words |-> kind[i].words, page |-> page[i],
                           x |-> x[i], y |-> y[i], height |-> kind[i].height,
                           pageHeight |-> 800 ] ]
  /\ superscripted = NoResult
  /\ footerFiltered = NoResult /\ extraction = NoResult
  /\ store = [ id \in {} |-> NoRecord ] /\ clock = 0 /\ files = {}
  /\ lastSave = <<>> /\ evicted = {} /\ response = NoResult
  /\ baseDocument = <<>> /\ comparedDocument = <<>> /\ comparison = NoResult
  /\ sectionLines = <<>> /\ ps = NoResult /\ parsed = NoResult
  /\ lines = <<>> /\ extracted = NoResult

AttachSuperscripts ==
  /\ superscripted = NoResult
  /\ superscripted' = attachSuperscripts(pageLines)
  /\ UNCHANGED <<pageLines, footerFiltered, extraction>>
  /\ UNCHANGED <<storeVars, compareVars, parseVars, extractVars>>

NextSuperscripts == AttachSuperscripts

SpecSuperscripts == InitSuperscripts /\ [][NextSuperscripts]_vars

Attached == superscripted # NoResult

IsCandidateAt(i) ==
  isSuperscriptCandidate(pageLines[i], pageMedianHeight2(pageLines, pageLines[i].page))

\* the neighbours of the candidate at i that the claim lets it attach to
EligibleFor(i) ==
  { j \in { i - 2, i - 1, i + 1, i + 2 } \cap DOMAIN pageLines :
      /\ pageLines[j].page = pageLines[i].page
      /\ ~IsCandidateAt(j)
      /\ Abs(pageLines[j].y - pageLines[i].y) <= SUPERSCRIPT_MAX_Y_DELTA }

YDelta(i, j) == Abs(pageLines[j].y - pageLines[i].y)

\* 140 * (|dy| + |dx| / 140)
ClaimScore(i, j) ==
  X_BIAS_DIVISOR * YDelta(i, j) + Abs(pageLines[i].x - pageLines[j].x)

\* the output line that came from input line j
OutputOf(j) == CHOOSE line \in Range(superscripted.lines) : line.n = j

InOutput(j) == \E line \in Range(superscripted.lines) : line.n = j

\* the superscripts of the candidates attached to j, in stream order
AttachedText(j) ==
  LET from == AscendingSeq({ i \in DOMAIN pageLines : superscripted.attached[i] = j })
  IN  ConcatAll([ k \in DOMAIN from |-> toSuperscript(pageLines[from[k]].words) ])

\* every candidate goes to an eligible neighbour of minimal score, is removed
\* and leaves its text on that neighbour; without one it stays unchanged
AttachesToClosest ==
  /\ \A i \in DOMAIN pageLines :
       LET j == superscripted.attached[i]
       IN  /\ ~IsCandidateAt(i) => j = NotFound
           /\ (IsCandidateAt(i) /\ EligibleFor(i) = {})
                => j = NotFound /\ InOutput(i) /\ OutputOf(i) = pageLines[i]
           /\ (IsCandidateAt(i) /\ EligibleFor(i) # {})
                => /\ j \in EligibleFor(i)
                   /\ \A k \in EligibleFor(i) : ClaimScore(i, j) <= ClaimScore(i, k)
                   /\ ~InOutput(i)
  /\ \A j \in DOMAIN pageLines :
       InOutput(j) =>
         OutputOf(j) = [ pageLines[j] EXCEPT !.words =
                           IF AttachedText(j) = "" THEN @
                           ELSE AppendSuperscript(@, AttachedText(j)) ]
  /\ \A a, b \in DOMAIN superscripted.lines :
       a < b => superscripted.lines[a].n < superscripted.lines[b].n

C14_ClosestNeighbour == Attached => AttachesToClosest

\* a candidate with two equally close neighbours of different |dy| was attached
C14_WitnessTie ==
  /\ Attached
  /\ \E i \in DOMAIN pageLines :
       /\ IsCandidateAt(i)
       /\ \E j, k \in EligibleFor(i) :
            ClaimScore(i, j) = ClaimScore(i, k) /\ YDelta(i, j) # YDelta(i, k)
       /\ ~InOutput(i)

(***************************************************************************)
(* Reading the lines of the two uploads                                    *)
(* (extractLines of src/src/lib/pdf/extractParagraphs.ts, run for both     *)
(* sides by POST /api/compare)                                             *)
(*                                                                         *)
(* A pdf is what pdf.js answers for it: whether it opens and, page by      *)
(* page, the outcome of getPage, of getTextContent and of getViewport and  *)
(* the texts of the lines assembled from the page.  The steps of a side    *)
(* are the awaits of extractLines; what lies between two awaits runs       *)
(* without interruption.                                                   *)
(***************************************************************************)
MaxPages == 2

Sides == { "base", "compared" }

PageKinds ==
  { [ getPage |-> "ok", getTextContent |-> "ok", getViewport |-> "ok", texts |-> << "body" >> ],
    [ getPage |-> "ok", getTextContent |-> "ok", getViewport |-> "throws", texts |-> << "body" >> ],
    [ getPage |-> "ok", getTextContent |-> "error", getViewport |-> "ok", texts |-> << "body" >> ],
    [ getPage |-> "error", getTextContent |-> "ok", getViewport |-> "ok", texts |-> << "body" >> ],
    [ getPage |-> "invalid page request", getTextContent |-> "ok", getViewport |-> "ok",
      texts |-> << "body" >> ] }

\* a pdf that opens, of up to MaxPages pages, or one that pdf.js rejects
Pdfs ==
  { [ opens |-> TRUE, pages |-> pages ] : pages \in SeqsUpTo(PageKinds, MaxPages) }
    \cup { [ opens |-> FALSE, pages |-> <<>> ] }

\* INVALID_PAGE_REQUEST_PATTERN.test(error.message)
isInvalidPageRequestErrorAny(outcome) == outcome # "ok"

isInvalidPageRequestError(outcome) == outcome = "invalid page request"

\* allLines.push(...) for the lines of one page
PageLinesOf(pdf, pageNumber) ==
  [ i \in DOMAIN pdf.pages[pageNumber].texts |->
      [ page |-> pageNumber, text |-> pdf.pages[pageNumber].texts[i] ] ]

\* every side pushes to the array of the other call as well
AccumulatorShared(side) == "base"

\* const allLines: PageLine[] = [] is a local of the call
Accumulator(side) == side

\* buffer.slice(): the extraction gets its own copy of the bytes
HandOver(buffer) == [ bytes |-> buffer, sharedWithRoute |-> FALSE ]

InitExtraction ==
  /\ \E basePdf \in Pdfs, comparedPdf \in Pdfs :
       extraction =
         [ pdf         |-> [ side \in Sides |-> IF side = "base" THEN basePdf ELSE comparedPdf ],
           buffer      |-> [ side \in Sides |-> side ],
           data        |-> [ side \in Sides |-> Undefined ],
           pc          |-> [ side \in Sides |-> "start" ],
           pageNumber  |-> [ side \in Sides |-> 0 ],
           allLines    |-> [ side \in Sides |-> <<>> ],
           destroyed   |-> [ side \in Sides |-> 0 ],
           thrown      |-> [ side \in Sides |-> FALSE ],
           result      |-> [ side \in Sides |-> Undefined ],
           overlapped  |-> FALSE ]
  /\ pageLines = <<>> /\ footerFiltered = NoResult /\ superscripted = NoResult
  /\ store = [ id \in {} |-> NoRecord ] /\ clock = 0 /\ files = {}
  /\ lastSave = <<>> /\ evicted = {} /\ response = NoResult
  /\ baseDocument = <<>> /\ comparedDocument = <<>> /\ comparison = NoResult
  /\ sectionLines = <<>> /\ ps = NoResult /\ parsed = NoResult
  /\ lines = <<>> /\ extracted = NoResult

OtherSide(side) == IF side = "base" THEN "compared" ELSE "base"

Running(pc) == pc \in { "getPage", "getTextContent", "destroy" }

\* the loop test and what follows the loop: the next page, or the finally block
LoopAt(e, side, pageNumber) ==
  [ e EXCEPT !.pageNumber[side] = pageNumber,
             !.pc[side] = IF pageNumber <= Len(e.pdf[side].pages) THEN "getPage" ELSE "destroy" ]

\* a step of one side; it is noted when the other side is under way
StepOf(side, next) ==
  /\ extraction' = [ next EXCEPT !.overlapped = @ \/ Running(extraction.pc[OtherSide(side)]) ]
  /\ UNCHANGED <<pageLines, footerFiltered, superscripted>>
  /\ UNCHANGED <<storeVars, compareVars, parseVars, extractVars>>

\* getDocument({ data }) and await loadingTask.promise; pdf.js may keep the
\* bytes it is given or take them over, which empties the caller's array
OpenDocument ==
  \E side \in Sides, takesOver \in BOOLEAN :
    /\ extraction.pc[side] = "start"
    /\ extraction.pdf[side].opens
    /\ LET handed == HandOver(extraction.buffer[side])
           e1 == [ extraction EXCEPT
                     !.data[side] = IF takesOver THEN "detached" ELSE handed.bytes,
                     !.buffer[side] = IF takesOver /\ handed.sharedWithRoute
                                      THEN "detached" ELSE @ ]
       IN  StepOf(side, LoopAt(e1, side, 1))

\* loadingTask.promise rejects: extractLines throws before its try block
OpenFails ==
  \E side \in Sides :
    /\ extraction.pc[side] = "start"
    /\ ~extraction.pdf[side].opens
    /\ StepOf(side, [ extraction EXCEPT !.pc[side] = "failed", !.thrown[side] = TRUE ])

CurrentPage(side) == extraction.pdf[side].pages[extraction.pageNumber[side]]

GetPage ==
  \E side \in Sides :
    /\ extraction.pc[side] = "getPage"
    /\ CurrentPage(side).getPage = "ok"
    /\ StepOf(side, [ extraction EXCEPT !.pc[side] = "getTextContent" ])

\* catch: break
GetPageInvalid ==
  \E side \in Sides :
    /\ extraction.pc[side] = "getPage"
    /\ CurrentPage(side).getPage # "ok"
    /\ isInvalidPageRequestError(CurrentPage(side).getPage)
    /\ StepOf(side, [ extraction EXCEPT !.pc[side] = "destroy" ])

\* catch: console.warn and continue
GetPageFails ==
  \E side \in Sides :
    /\ extraction.pc[side] = "getPage"
    /\ CurrentPage(side).getPage # "ok"
    /\ ~isInvalidPageRequestError(CurrentPage(side).getPage)
    /\ StepOf(side, LoopAt(extraction, side, extraction.pageNumber[side] + 1))

\* getTextContent, getViewport and the assembling of the lines of the page
GetTextContent ==
  \E side \in Sides :
    /\ extraction.pc[side] = "getTextContent"
    /\ CurrentPage(side).getTextContent = "ok"
    /\ CurrentPage(side).getViewport = "ok"
    /\ LET into == Accumulator(side)
           e1 == [ extraction EXCEPT
                     !.allLines[into] =
                       @ \o PageLinesOf(extraction.pdf[side], extraction.pageNumber[side]) ]
       IN  StepOf(side, LoopAt(e1, side, extraction.pageNumber[side] + 1))

\* catch: console.warn and continue
GetTextContentFails ==
  \E side \in Sides :
    /\ extraction.pc[side] = "getTextContent"
    /\ CurrentPage(side).getTextContent # "ok"
    /\ StepOf(side, LoopAt(extraction, side, extraction.pageNumber[side] + 1))

\* page.getViewport throws: the error leaves the loop through the finally block
ViewportThrows ==
  \E side \in Sides :
    /\ extraction.pc[side] = "getTextContent"
    /\ CurrentPage(side).getTextContent = "ok"
    /\ CurrentPage(side).getViewport # "ok"
    /\ StepOf(side, [ extraction EXCEPT !.pc[side] = "destroy", !.thrown[side] = TRUE ])

\* finally { await loadingTask.destroy() }, then return allLines or rethrow
Destroy ==
  \E side \in Sides :
    /\ extraction.pc[side] = "destroy"
    /\ StepOf(side,
         [ extraction EXCEPT
             !.destroyed[side] = @ + 1,
             !.pc[side] = IF extraction.thrown[side] THEN "failed" ELSE "done",
             !.result[side] = IF extraction.thrown[side] THEN Undefined
                              ELSE extraction.allLines[Accumulator(side)] ])

NextExtraction ==
  \/ OpenDocument
  \/ OpenFails
  \/ GetPage
  \/ GetPageInvalid
  \/ GetPageFails
  \/ GetTextContent
  \/ GetTextContentFails
  \/ ViewportThrows
  \/ Destroy

SpecExtraction == InitExtraction /\ [][NextExtraction]_vars

RECURSIVE LinesAlone(_, _)
\* extractLines run by itself on the pdf, from pageNumber on: its lines, or
\* Undefined when it throws
LinesAlone(pdf, pageNumber) ==
  IF pageNumber > Len(pdf.pages) THEN <<>>
  ELSE LET page == pdf.pages[pageNumber]
           rest == LinesAlone(pdf, pageNumber + 1)
       IN  IF page.getPage = "invalid page request" THEN <<>>
           ELSE IF page.getPage # "ok" \/ page.getTextContent # "ok" THEN rest
           ELSE IF page.getViewport # "ok" THEN Undefined
           ELSE IF rest = Undefined THEN Undefined
           ELSE PageLinesOf(pdf, pageNumber) \o rest

Settled(side) == extraction.pc[side] \in { "done", "failed" }

\* C19: when the two extractions run concurrently, under every interleaving of
\* their page reads each side ends with what its extraction yields when run
\* alone on the same pdf (the same lines, or the same failure); no side reads or
\* writes what the other works on, and the buffers of the route stay as they were.
C19_SidesDoNotInterfere ==
  /\ \A side \in Sides :
       /\ extraction.buffer[side] = side
       /\ Settled(side) =>
            IF extraction.pdf[side].opens
            THEN extraction.result[side] = LinesAlone(extraction.pdf[side], 1)
            ELSE extraction.result[side] = Undefined
       /\ extraction.pc[side] = "done" <=> extraction.result[side] # Undefined

\* both sides have run one through the other, pdf.js took over the bytes it was
\* given, and the sides end with different lines
C19_Witness ==
  /\ \A side \in Sides : extraction.pc[side] = "done" /\ extraction.result[side] # <<>>
  /\ extraction.result["base"] # extraction.result["compared"]
  /\ extraction.overlapped
  /\ extraction.data["base"] = "detached"

\* the first page, if any, whose getPage answers with an invalid page request
FirstInvalidPage(pdf) ==
  LET invalid == { k \in DOMAIN pdf.pages : pdf.pages[k].getPage = "invalid page request" }
  IN  IF invalid = {} THEN Len(pdf.pages) + 1
      ELSE CHOOSE k \in invalid : \A other \in invalid : k <= other

\* the pdf with page k empty
WithEmptyPage(pdf, k) ==
  [ pdf EXCEPT !.pages[k] = [ getPage |-> "ok", getTextContent |-> "ok",
                              getViewport |-> "ok", texts |-> <<>> ] ]

SkipsPage(pdf, k) ==
  \/ pdf.pages[k].getPage \notin { "ok", "invalid page request" }
  \/ pdf.pages[k].getPage = "ok" /\ pdf.pages[k].getTextContent # "ok"

\* C20: a failure of getPage (other than an invalid page request) or of
\* getTextContent on page k skips page k only: the lines are those of the pdf
\* with page k empty and the extraction does not fail for it; an invalid page
\* request from getPage on page k ends the loop, so that no page >= k
\* contributes; and once the document was opened loadingTask.destroy() is
\* called exactly once on every path, thrown errors included.
C20_SkipPageBreakOnInvalidDestroyOnce ==
  \A side \in Sides :
    LET pdf == extraction.pdf[side]
    IN  /\ extraction.destroyed[side] <= 1
        /\ (Settled(side) /\ pdf.opens) => extraction.destroyed[side] = 1
        /\ extraction.pc[side] = "done" =>
             /\ \A k \in DOMAIN pdf.pages :
                  SkipsPage(pdf, k) =>
                    extraction.result[side] = LinesAlone(WithEmptyPage(pdf, k), 1)
             /\ \A i \in DOMAIN extraction.result[side] :
                  /\ extraction.result[side][i].page < FirstInvalidPage(pdf)
                  /\ ~SkipsPage(pdf, extraction.result[side][i].page)
             /\ \A k \in 1 .. (FirstInvalidPage(pdf) - 1) :
                  ~SkipsPage(pdf, k) =>
                    \A t \in Range(pdf.pages[k].texts) :
                      \E i \in DOMAIN extraction.result[side] :
                        extraction.result[side][i] = [ page |-> k, text |-> t ]
        /\ (Settled(side) /\ pdf.opens /\ extraction.pc[side] = "failed") =>
             \E k \in DOMAIN pdf.pages :
               pdf.pages[k].getPage = "ok" /\ pdf.pages[k].getViewport # "ok"

\* a side whose first page failed and was skipped and whose second page gave
\* its lines, and a side that threw after opening; both destroyed once
C20_Witness ==
  /\ extraction.pc["base"] = "done"
  /\ Len(extraction.pdf["base"].pages) = 2
  /\ SkipsPage(extraction.pdf["base"], 1)
  /\ extraction.result["base"] = << [ page |-> 2, text |-> "body" ] >>
  /\ extraction.destroyed["base"] = 1
  /\ extraction.pc["compared"] = "failed" /\ extraction.pdf["compared"].opens
  /\ extraction.destroyed["compared"] = 1

\* an invalid page request on page 1 of 2 ended the loop before page 2
C20_WitnessInvalid ==
  /\ extraction.pc["base"] = "done"
  /\ Len(extraction.pdf["base"].pages) = 2
  /\ FirstInvalidPage(extraction.pdf["base"]) = 1
  /\ extraction.pdf["base"].pages[2].getPage = "ok"
  /\ extraction.result["base"] = <<>>

(***************************************************************************)
(* Comparison store  (src/src/lib/store/comparisonStore.ts)                *)
(***************************************************************************)
\* comparison ids (crypto.randomUUID() in the routes)
Ids == { "c1", "c2" }

TWO_HOURS_MS == 2 * 60 * 60 * 1000

\* The clock moves in steps of one hour, MaxClockTicks times at most.
TickMs        == 60 * 60 * 1000
MaxClockTicks == 4

BasePath(id)     == <<id, "base">>
ComparedPath(id) == <<id, "compared">>
DirOf(path)      == <<path[1], "dir">>

\* fs.rmSync(path, {force, recursive}): removing a directory removes what is in it
removeFileSafe(fsys, path) ==
  IF path[2] = "dir" THEN { f \in fsys : f[1] # path[1] } ELSE fsys \ { path }

cleanupRecordKeepDirectory(fsys, record) ==
  removeFileSafe(removeFileSafe(fsys, record.basePdfTempPath), record.comparedPdfTempPath)

cleanupRecord(fsys, record) ==
  removeFileSafe(
    removeFileSafe(removeFileSafe(fsys, record.basePdfTempPath), record.comparedPdfTempPath),
    DirOf(record.basePdfTempPath))

isExpiredLate(record, now) == now > record.expiresAtMs

isExpired(record, now) == now >= record.expiresAtMs

ExpiredIds(st, now) == { id \in Ids : st[id] # NoRecord /\ isExpired(st[id], now) }

RECURSIVE CleanupAll(_, _, _)
CleanupAll(fsys, st, ids) ==
  IF ids = {} THEN fsys
  ELSE LET id == CHOOSE i \in ids : TRUE
       IN  CleanupAll(cleanupRecord(fsys, st[id]), st, ids \ { id })

\* purgeExpiredComparisons: returns the store and the file system after the purge
purgeExpiredComparisons(st, fsys, now) ==
  LET gone == ExpiredIds(st, now)
  IN  [ store |-> [ id \in Ids |-> IF id \in gone THEN NoRecord ELSE st[id] ],
        files |-> CleanupAll(fsys, st, gone),
        gone  |-> gone ]

\* resolveComparisonState: the state reported, and the store and files it leaves
resolveComparisonState(st, fsys, id, now) ==
  LET record == st[id] IN
  IF record = NoRecord
  THEN LET p == purgeExpiredComparisons(st, fsys, now)
       IN  [ state |-> "missing", record |-> NoRecord,
             store |-> p.store, files |-> p.files, gone |-> p.gone ]
  ELSE IF isExpired(record, now)
  THEN LET st1 == [ st EXCEPT ![id] = NoRecord ]
           p   == purgeExpiredComparisons(st1, cleanupRecord(fsys, record), now)
       IN  [ state |-> "expired", record |-> NoRecord,
             store |-> p.store, files |-> p.files, gone |-> p.gone \cup { id } ]
  ELSE LET p == purgeExpiredComparisons(st, fsys, now)
       IN  [ state |-> "ok", record |-> record,
             store |-> p.store, files |-> p.files, gone |-> p.gone ]

getStoredComparisonState(st, fsys, id, now) == resolveComparisonState(st, fsys, id, now)

getDefaultExpiryMs(now) == now + TWO_HOURS_MS

\* HTTP status of the three routes that look an id up
RouteStatus(route, r) ==
  IF r.state = "expired" THEN 410
  ELSE IF r.state = "missing" THEN 404
  ELSE IF route = "source" /\ r.record.basePdfTempPath \notin r.files THEN 410
  ELSE 200

(***************************************************************************)
(* PDF export  (app/api/compare/[id]/export/route.ts, renderComparisonPdf)  *)
(***************************************************************************)
DiffGranularities == { "word", "sentence", "paragraph" }

\* searchParams.get("granularity"): a value, the empty value, or null when absent
GranularityParams == DiffGranularities \cup { "invalid", "", "Word", Null }

isDiffGranularity(value) == value \in { "word", "sentence", "paragraph" }

\* as ExportGranularity, an unknown value falling back to sentence
ExportGranularityToSentence(granularityParam) ==
  LET param == IF granularityParam = Null THEN "word" ELSE granularityParam
  IN  IF isDiffGranularity(param) THEN param ELSE "sentence"

\* searchParams.get("granularity") ?? "word", then the isDiffGranularity test
ExportGranularity(granularityParam) ==
  LET param == IF granularityParam = Null THEN "word" ELSE granularityParam
  IN  IF isDiffGranularity(param) THEN param ELSE "word"

getSectionTokens(section, granularity) ==
  IF granularity = "sentence" THEN section.sectionDiffSentence
  ELSE IF granularity = "paragraph" THEN section.sectionDiffParagraph
  ELSE section.sectionDiffWord

\* value.replace(/\t/g, "    ").replace(/\r/g, "")
normalizeRunText(value) ==
  CASE value = "\tRecords" -> "    Records"
    [] OTHER               -> value

COLOR_TEXT    == "text"
COLOR_REMOVED == "removed red"
COLOR_ADDED   == "added green"

buildBaseRuns(value) ==
  << [ value |-> normalizeRunText(value), color |-> COLOR_TEXT,
       strike |-> FALSE, font |-> "regular" ] >>

buildComparedRuns(tokens) ==
  [ i \in DOMAIN tokens |->
      IF tokens[i].kind = "removed"
      THEN [ value |-> normalizeRunText(tokens[i].value), color |-> COLOR_REMOVED,
             strike |-> TRUE, font |-> "regular" ]
      ELSE IF tokens[i].kind = "added"
      THEN [ value |-> normalizeRunText(tokens[i].value), color |-> COLOR_ADDED,
             strike |-> FALSE, font |-> "bold" ]
      ELSE [ value |-> normalizeRunText(tokens[i].value), color |-> COLOR_TEXT,
             strike |-> FALSE, font |-> "regular" ] ]

\* value.trim().length > 0 ? value : fallback
ensurePanelText(value, fallback) == IF Trim(value) # "" THEN value ELSE fallback

\* The report: one entry per section with the header line and the styled runs
\* of the two panels (the split of the runs over pages follows the font
\* metrics and is the same for equal runs), or the single page of a
\* comparison without sections.
renderComparisonPdfBuffer(result, granularity) ==
  IF result.sections = <<>>
  THEN << [ title |-> "Framework Comparison Report",
            text  |-> "No comparable sections available." ] >>
  ELSE [ i \in DOMAIN result.sections |->
           LET section        == result.sections[i]
               comparedTokens == getSectionTokens(section, granularity)
               comparedHasText == \E t \in Range(comparedTokens) : Trim(t.value) # ""
           IN  [ title  |-> "Framework Comparison Report",
                 sectionLabel |-> section.header,
                 baseRuns |-> buildBaseRuns(
                   ensurePanelText(section.baseSectionTextPreserved,
                                   "This section is missing in the base document.")),
                 comparedRuns |->
                   IF comparedHasText THEN buildComparedRuns(comparedTokens)
                   ELSE buildComparedRuns(
                          << Token("This section is missing in the compared document.",
                                   "equal") >>) ] ]

\* The result POST /api/compare stored under an id: a report of two sections
\* whose three section diffs differ, and a report without sections.
StoredResult(id) ==
  IF id = "c1"
  THEN [ baseFileName |-> "base.pdf",
         sections |->
           << [ header |-> "Scope",
                baseSectionTextPreserved |-> "\tRecords are kept for five years.",
                sectionDiffWord |->
                  << Token("\tRecords", "equal"), Token(" are kept for ", "equal"),
                     Token("five", "removed"), Token("seven", "added"),
                     Token(" years.", "equal") >>,
                sectionDiffSentence |->
                  << Token("\tRecords are kept for five years.", "removed"),
                     Token("\tRecords are kept for seven years.", "added") >>,
                sectionDiffParagraph |->
                  << Token("Records are kept for five years.", "removed"),
                     Token("Records are kept for seven years.", "added") >> ],
              [ header |-> "Objective",
                baseSectionTextPreserved |-> "Notices must be delivered in writing.",
                sectionDiffWord |-> << Token("Notices must be delivered in writing.", "removed") >>,
                sectionDiffSentence |-> << Token("Notices must be delivered in writing.", "removed") >>,
                sectionDiffParagraph |-> << Token("Notices must be delivered in writing.", "removed") >> ] >> ]
  ELSE [ baseFileName |-> "empty.pdf", sections |-> <<>> ]

InitStore ==
  /\ store = [ id \in Ids |-> NoRecord ]
  /\ clock = 0
  /\ files = {}
  /\ lastSave = [ id \in Ids |-> NoSave ]
  /\ evicted = {}
  /\ response = NoResult
  /\ baseDocument = <<>> /\ comparedDocument = <<>> /\ comparison = NoResult
  /\ sectionLines = <<>> /\ ps = NoResult /\ parsed = NoResult
  /\ lines = <<>> /\ extracted = NoResult
  /\ pageLines = <<>> /\ footerFiltered = NoResult /\ superscripted = NoResult
  /\ extraction = NoResult

\* POST /api/compare: the uploads are written to temp files, then saveComparison
SaveComparison(id, expiresAtMs) ==
  LET p      == purgeExpiredComparisons(store, files, clock)
      record == [ id |-> id, expiresAtMs |-> expiresAtMs,
                  result |-> StoredResult(id),
                  basePdfTempPath |-> BasePath(id),
                  comparedPdfTempPath |-> ComparedPath(id) ]
      written == files \cup { DirOf(BasePath(id)), BasePath(id), ComparedPath(id) }
      q      == purgeExpiredComparisons(store, written, clock)
  IN  /\ store' = [ q.store EXCEPT ![id] = record ]
      /\ files' = q.files
      /\ lastSave' = [ lastSave EXCEPT ![id] = [ at |-> clock, expiresAtMs |-> expiresAtMs ] ]
      /\ evicted' = (evicted \cup p.gone) \ { id }
      /\ response' = [ route |-> "post", id |-> id, state |-> "saved", status |-> 200,
                       record |-> record, at |-> clock, wasEvicted |-> FALSE ]
      /\ UNCHANGED clock

\* POST /api/compare and /api/compare/default: a fresh id, the default expiry
PostCompare(id) ==
  /\ lastSave[id] = NoSave
  /\ SaveComparison(id, getDefaultExpiryMs(clock))
  /\ UNCHANGED <<compareVars, parseVars, extractVars, lineVars>>

\* saveComparison called directly, with an id and an expiry of the caller's choice
SaveWithExpiry(id) ==
  /\ \E k \in { 1, 3 } : SaveComparison(id, clock + k * TickMs)
  /\ UNCHANGED <<compareVars, parseVars, extractVars, lineVars>>

Lookup(route, id) ==
  LET r == getStoredComparisonState(store, files, id, clock)
  IN  /\ store' = r.store
      /\ files' = r.files
      /\ evicted' = evicted \cup r.gone
      /\ response' = [ route |-> route, id |-> id, state |-> r.state,
                       status |-> RouteStatus(route, r), record |-> r.record,
                       at |-> clock, wasEvicted |-> id \in (evicted \cup r.gone) ]
      /\ UNCHANGED <<clock, lastSave>>
      /\ UNCHANGED <<compareVars, parseVars, extractVars, lineVars>>

\* GET /api/compare/:id
GetCompare(id) == Lookup("get", id)
\* GET /api/compare/:id/export?granularity=...  (app/api/compare/[id]/export/route.ts)
GetExport(id) ==
  \E granularityParam \in GranularityParams :
    LET r == getStoredComparisonState(store, files, id, clock)
    IN  /\ store' = r.store
        /\ files' = r.files
        /\ evicted' = evicted \cup r.gone
        /\ response' = [ route |-> "export", id |-> id, state |-> r.state,
                         status |-> RouteStatus("export", r), record |-> r.record,
                         at |-> clock, wasEvicted |-> id \in (evicted \cup r.gone),
                         granularityParam |-> granularityParam,
                         body |-> IF r.state = "expired"
                                  THEN "Comparison files expired after 2 hours; please re-upload."
                                  ELSE IF r.state = "missing"
                                  THEN "Comparison not found or expired."
                                  ELSE renderComparisonPdfBuffer(
                                         r.record.result, ExportGranularity(granularityParam)) ]
        /\ UNCHANGED <<clock, lastSave>>
        /\ UNCHANGED <<compareVars, parseVars, extractVars, lineVars>>
\* GET /api/compare/:id/source/:side
GetSource(id) == Lookup("source", id)

AdvanceClock ==
  /\ clock < MaxClockTicks * TickMs
  /\ clock' = clock + TickMs
  /\ UNCHANGED <<store, files, lastSave, evicted, response>>
  /\ UNCHANGED <<compareVars, parseVars, extractVars, lineVars>>

NextStore ==
  \/ \E id \in Ids : PostCompare(id)
  \/ \E id \in Ids : SaveWithExpiry(id)
  \/ \E id \in Ids : GetCompare(id)
  \/ \E id \in Ids : GetExport(id)
  \/ \E id \in Ids : GetSource(id)
  \/ AdvanceClock

SpecStore == InitStore /\ [][NextStore]_vars

IsLookup(r) == r # NoResult /\ r.route \in { "get", "export", "source" }

\* C9 (as claimed): a lookup of an id that was saved earlier and has been evicted
\* because its expiry passed reports state expired and the route answers 410,
\* whatever saves and lookups happened in between.
C9_EvictedIdReportsExpired ==
  (IsLookup(response) /\ response.wasEvicted)
    => (response.state = "expired" /\ response.status = 410)

FilesOf(record) ==
  { record.basePdfTempPath, record.comparedPdfTempPath, DirOf(record.basePdfTempPath) }

=============================================================================
